---- MODULE Spec2Model ----
(***************************************************************************)
(* Verification model of the crypto_predictions pipeline                   *)
(* (src/src/services/crypto_prediction_system.ts and                       *)
(* src/src/utils/calculationUtils.ts).                                     *)
(*                                                                         *)
(* Numbers.  A JavaScript number is modelled as a pair <<n, d>>:           *)
(*   d > 0        the rational n/d in lowest terms,                        *)
(*   <<0, 0>>     NaN,   <<1, 0>>  +Infinity,   <<-1, 0>>  -Infinity.      *)
(* Arithmetic follows IEEE-754 for the special values (x/0, 0/0, Inf-Inf)  *)
(* and is exact on the rationals: rounding is not modelled.                *)
(*                                                                         *)
(* Tables.  A DataFrame is a function from column names to equal-length    *)
(* sequences of numbers; its `columns` are the DOMAIN of that function and *)
(* its `index` is a sequence of integer timestamps.  Assigning a column    *)
(* that does not exist creates it, as the source assumes throughout.       *)
(*                                                                         *)
(* A nullable field is a set with at most one element: {} is null.         *)
(***************************************************************************)
EXTENDS Integers, Sequences, FiniteSets, TLC

VARIABLES
    \* ---- MinMaxScaler (one instance) ----
    min, max, range, featureRange,
    origin,        \* input of the transform whose output the last inverseTransform was given, or {}
    \* ---- CryptoPredictionSystem and its collaborators ----
    glassnode_api_key,      \* CryptoDataCollector.glassnode_api_key is set
    priceData, fearGreedData, exchangeReservesData, onchainData, combinedData,
    modelTrained, predictionResults,
    model, xScaler, yScaler, \* MachineLearningPredictor fields
    collects,               \* number of collectData calls made so far
    trainModelCalled,       \* MachineLearningPredictor.trainModel has been called
    trainModelResolved,     \* a trainModel call has returned its history (its fit succeeded)
    \* ---- PredictionService and the calls in progress ----
    owner,                  \* who drives the system: "none" yet, a "script", or the "service"
    isInitialized,          \* PredictionService.isInitialized
    initializationPromise,  \* PredictionService.initializationPromise: "null", "pending",
                            \* or the value it resolved to, "true" or "false"
    tasks,                  \* per caller, the asynchronous call it has in progress
    \* ---- shared ----
    call           \* the last call made and its result: [op, arg, res]

scalerVars == <<min, max, range, featureRange, origin>>
systemVars == <<glassnode_api_key, priceData, fearGreedData, exchangeReservesData,
                onchainData, combinedData, modelTrained, predictionResults, collects>>
predictorVars == <<model, xScaler, yScaler, trainModelCalled, trainModelResolved>>
serviceVars == <<owner, isInitialized, initializationPromise, tasks>>
vars == <<scalerVars, systemVars, predictorVars, serviceVars, call>>

-----------------------------------------------------------------------------
\* Bounds of the model
MaxCols == 2        \* feature count of the matrices handed to the scaler
MaxFitRows == 3     \* rows of a matrix handed to fitTransform
MaxCells == 3       \* rows * cols of a matrix handed to the scaler
MaxRows == 1        \* rows of a matrix handed to transform / inverseTransform
MaxCollects == 1    \* collectData calls in one behaviour
MaxLen == 5         \* rows of a table, entries of a series
MaxCallers == 2     \* callers that have a call in progress at the same time

Callers == 1..MaxCallers

-----------------------------------------------------------------------------
\* JavaScript numbers

Abs(x) == IF x < 0 THEN -x ELSE x
Sgn(x) == IF x < 0 THEN -1 ELSE IF x > 0 THEN 1 ELSE 0

RECURSIVE Gcd(_, _)
Gcd(a, b) == IF b = 0 THEN a ELSE Gcd(b, a % b)

Norm(n, d) ==
    IF d = 0 THEN <<Sgn(n), 0>>
    ELSE LET g == Gcd(Abs(n), Abs(d))
             s == IF d < 0 THEN -1 ELSE 1
         IN  <<(s * n) \div g, (s * d) \div g>>

Num(i) == <<i, 1>>
Frac(n, d) == Norm(n, d)
NaN == <<0, 0>>
Infinity == <<1, 0>>
NegInfinity == <<-1, 0>>

isNaN(x) == x = NaN
IsFinite(x) == x[2] # 0

Neg(a) == <<-a[1], a[2]>>

Add(a, b) ==
    IF isNaN(a) \/ isNaN(b) THEN NaN
    ELSE IF ~IsFinite(a) /\ ~IsFinite(b) THEN (IF a = b THEN a ELSE NaN)
    ELSE IF ~IsFinite(a) THEN a
    ELSE IF ~IsFinite(b) THEN b
    ELSE Norm(a[1] * b[2] + b[1] * a[2], a[2] * b[2])

Sub(a, b) == Add(a, Neg(b))

Mul(a, b) == Norm(a[1] * b[1], a[2] * b[2])

\* 1/x: 1/0 = +Infinity, 1/(+-Infinity) = 0, 1/NaN = NaN
Inv(a) == Norm(a[2], a[1])

Div(a, b) == Mul(a, Inv(b))

\* a < b as JavaScript evaluates it (false when either side is NaN)
Lt(a, b) ==
    IF isNaN(a) \/ isNaN(b) \/ a = b THEN FALSE
    ELSE IF a = NegInfinity \/ b = Infinity THEN TRUE
    ELSE IF a = Infinity \/ b = NegInfinity THEN FALSE
    ELSE a[1] * b[2] < b[1] * a[2]

Gt(a, b) == Lt(b, a)
Le(a, b) == Lt(a, b) \/ (a = b /\ ~isNaN(a))
Ge(a, b) == Le(b, a)

-----------------------------------------------------------------------------
\* Nullable values

Null == {}
Some(v) == {v}
Val(s) == CHOOSE v \in s : TRUE

\* r-by-c matrices over the value set V
Matrices(V, r, c) == [1..r -> [1..c -> V]]

-----------------------------------------------------------------------------
\* Results of calls: a value, or a thrown error

NotFitted == "El escalador no ha sido ajustado"
FeatureMismatch == "El numero de caracteristicas no coincide"
TypeError == "TypeError"

Return(v) == [ok |-> TRUE, value |-> v, error |-> ""]
Throw(e) == [ok |-> FALSE, value |-> <<>>, error |-> e]

-----------------------------------------------------------------------------
\* class MinMaxScaler.  A scaler object is [min, max, range, featureRange];
\* min, max and range are nullable.  An input X is [oneDim, data]: a flat
\* array of numbers (oneDim) or an array of rows.

OneD(xs) == [oneDim |-> TRUE, data |-> xs]
TwoD(m) == [oneDim |-> FALSE, data |-> m]

\* const data = isOneDimensional ? X.map(x => [x]) : X
asMatrix(X) ==
    IF X.oneDim THEN [i \in 1..Len(X.data) |-> <<X.data[i]>>] ELSE X.data

NewScaler(fr) == [min |-> Null, max |-> Null, range |-> Null, featureRange |-> fr]

\* the loops of fitTransform that find the minimum / maximum of column j in
\* rows 1..k, starting from Infinity / -Infinity
RECURSIVE scanMin(_, _, _)
scanMin(data, j, k) ==
    IF k = 0 THEN Infinity
    ELSE LET m == scanMin(data, j, k - 1)
         IN  IF Lt(data[k][j], m) THEN data[k][j] ELSE m

RECURSIVE scanMax(_, _, _)
scanMax(data, j, k) ==
    IF k = 0 THEN NegInfinity
    ELSE LET m == scanMax(data, j, k - 1)
         IN  IF Gt(data[k][j], m) THEN data[k][j] ELSE m

\* one cell of transform
transformCellNoZeroRange(s, x, j) ==
    LET lo == s.featureRange[1]
        hi == s.featureRange[2]
        scaled_value == Div(Sub(x, Val(s.min)[j]), Val(s.range)[j])
    IN  Add(Mul(scaled_value, Sub(hi, lo)), lo)

transformCell(s, x, j) ==
    LET lo == s.featureRange[1]
        hi == s.featureRange[2]
    IN  IF Val(s.range)[j] = Num(0) THEN lo
        ELSE LET scaled_value == Div(Sub(x, Val(s.min)[j]), Val(s.range)[j])
             IN  Add(Mul(scaled_value, Sub(hi, lo)), lo)

transformLooseCheck(s, X) ==
    IF s.min = Null \/ s.max = Null \/ s.range = Null THEN Throw(NotFitted)
    ELSE LET data == asMatrix(X) IN
         IF Len(data) = 0 THEN Throw(TypeError)
         ELSE LET n_features == Len(data[1]) IN
              IF n_features > Len(Val(s.min)) THEN Throw(FeatureMismatch)
              ELSE Return([i \in 1..Len(data) |->
                              [j \in 1..n_features |-> transformCell(s, data[i][j], j)]])

transform(s, X) ==
    IF s.min = Null \/ s.max = Null \/ s.range = Null THEN Throw(NotFitted)
    ELSE LET data == asMatrix(X) IN
         IF Len(data) = 0 THEN Throw(TypeError)
         ELSE LET n_features == Len(data[1]) IN
              IF n_features # Len(Val(s.min)) THEN Throw(FeatureMismatch)
              ELSE Return([i \in 1..Len(data) |->
                              [j \in 1..n_features |-> transformCell(s, data[i][j], j)]])

\* the scaler as fitTransform leaves it (data has at least one row)
fit(s, data) ==
    LET n_samples == Len(data)
        n_features == Len(data[1])
        mn == [j \in 1..n_features |-> scanMin(data, j, n_samples)]
        mx == [j \in 1..n_features |-> scanMax(data, j, n_samples)]
    IN  [s EXCEPT !.min = Some(mn), !.max = Some(mx),
                  !.range = Some([j \in 1..n_features |-> Sub(mx[j], mn[j])])]

\* fitTransform: the result and the scaler afterwards
fitTransform(s, X) ==
    LET data == asMatrix(X) IN
    IF Len(data) = 0 THEN [res |-> Throw(TypeError), scaler |-> s]
    ELSE LET fitted == fit(s, data)
         IN  [res |-> transform(fitted, TwoD(data)), scaler |-> fitted]

\* one cell of inverseTransform
inverseCellFromMax(s, x, j) ==
    LET lo == s.featureRange[1]
        hi == s.featureRange[2]
        scaled_value == Div(Sub(x, lo), Sub(hi, lo))
    IN  Add(Mul(scaled_value, Val(s.range)[j]), Val(s.max)[j])

inverseCell(s, x, j) ==
    LET lo == s.featureRange[1]
        hi == s.featureRange[2]
        scaled_value == Div(Sub(x, lo), Sub(hi, lo))
    IN  Add(Mul(scaled_value, Val(s.range)[j]), Val(s.min)[j])

inverseTransform(s, X) ==
    IF s.min = Null \/ s.max = Null \/ s.range = Null THEN Throw(NotFitted)
    ELSE LET data == asMatrix(X) IN
         IF Len(data) = 0 THEN Throw(TypeError)
         ELSE LET n_features == Len(data[1]) IN
              IF n_features # Len(Val(s.min)) THEN Throw(FeatureMismatch)
              ELSE Return([i \in 1..Len(data) |->
                              [j \in 1..n_features |-> inverseCell(s, data[i][j], j)]])

-----------------------------------------------------------------------------
\* The scaler under study and the calls made on it

FitVals == {Num(1), Num(3), Num(5)}
OpVals == {Num(3), NaN}
ScaledVals == {Num(0), Frac(1, 2)}
FeatureRanges == {<<Num(0), Num(1)>>, <<Num(-1), Num(1)>>, <<Num(2), Num(2)>>}

Shapes(maxRows, maxCells) ==
    {rc \in (1..maxRows) \X (1..MaxCols) : rc[1] * rc[2] <= maxCells}

Inputs(V, maxRows, maxCells) ==
    {OneD(<<>>)}
    \cup {OneD(xs) : xs \in UNION {[1..r -> V] : r \in 1..MaxRows}}
    \cup {TwoD(m) : m \in UNION {Matrices(V, rc[1], rc[2]) : rc \in Shapes(maxRows, maxCells)}}

FitInputs == Inputs(FitVals, MaxFitRows, MaxCells)
OpInputs == Inputs(OpVals, MaxRows, MaxCells)
InvInputs == Inputs(ScaledVals, MaxRows, MaxCells)

\* the objects a specification does not exercise are left as constructed
SystemIdle ==
    /\ glassnode_api_key = FALSE
    /\ priceData = Null /\ fearGreedData = Null /\ exchangeReservesData = Null
    /\ onchainData = Null /\ combinedData = Null
    /\ modelTrained = FALSE /\ predictionResults = Null
    /\ collects = 0

\* a PredictionService just constructed, and callers with no call in progress
IdleTask == [method |-> "none", pc |-> "idle", ran |-> <<>>, res |-> Null,
             ownsModel |-> FALSE]

ServiceIdle ==
    /\ owner = "none"
    /\ isInitialized = FALSE
    /\ initializationPromise = "null"
    /\ tasks = [t \in Callers |-> IdleTask]

PredictorIdle ==
    /\ model = Null /\ xScaler = Null /\ yScaler = Null
    /\ trainModelCalled = FALSE
    /\ trainModelResolved = FALSE

ScalerIdle ==
    /\ min = Null /\ max = Null /\ range = Null
    /\ featureRange = <<Num(0), Num(1)>>
    /\ origin = Null

Scaler == [min |-> min, max |-> max, range |-> range, featureRange |-> featureRange]

NoCall == [op |-> "new", arg |-> OneD(<<>>), res |-> Return(<<>>)]

InitScaler ==
    /\ featureRange \in FeatureRanges
    /\ min = Null /\ max = Null /\ range = Null
    /\ call = NoCall
    /\ origin = Null
    /\ SystemIdle /\ PredictorIdle /\ ServiceIdle

FitTransform(X) ==
    LET r == fitTransform(Scaler, X) IN
    /\ min' = r.scaler.min
    /\ max' = r.scaler.max
    /\ range' = r.scaler.range
    /\ call' = [op |-> "fitTransform", arg |-> X, res |-> r.res]
    /\ origin' = Null
    /\ UNCHANGED <<featureRange, systemVars, predictorVars, serviceVars>>

Transform(X) ==
    /\ call' = [op |-> "transform", arg |-> X, res |-> transform(Scaler, X)]
    /\ origin' = Null
    /\ UNCHANGED <<min, max, range, featureRange, systemVars, predictorVars, serviceVars>>

\* inverseTransform of X; X may be the matrix the preceding transform returned
InverseTransform(X) ==
    /\ call' = [op |-> "inverseTransform", arg |-> X, res |-> inverseTransform(Scaler, X)]
    /\ origin' = IF call.op \in {"transform", "fitTransform"} /\ call.res.ok
                    /\ X = TwoD(call.res.value)
                 THEN Some(asMatrix(call.arg)) ELSE Null
    /\ UNCHANGED <<min, max, range, featureRange, systemVars, predictorVars, serviceVars>>

LastOutput == IF call.op \in {"transform", "fitTransform"} /\ call.res.ok
              THEN {TwoD(call.res.value)} ELSE {}

\* The program fits a scaler once, right after constructing it (prepareData
\* creates xScaler and yScaler and calls fitTransform on each); transform
\* and inverseTransform are then called any number of times, and also on a
\* scaler that was never fitted.
NextScaler ==
    \/ min = Null /\ \E X \in FitInputs : FitTransform(X)
    \/ \E X \in OpInputs : Transform(X)
    \/ \E X \in InvInputs \cup LastOutput : InverseTransform(X)

SpecScaler == InitScaler /\ [][NextScaler]_vars

-----------------------------------------------------------------------------
\* Properties of MinMaxScaler (checked under SpecScaler)

IsScalerCall == call.op \in {"fitTransform", "transform", "inverseTransform"}
Unfitted == min = Null \/ max = Null \/ range = Null

\* C2: transform and inverseTransform throw when the scaler has not been fit
\* (not-fitted error), and throw when the first row of the input has a
\* number of columns other than the fit-time feature count (mismatch error);
\* a call that throws returns nothing and leaves min, max and range as they
\* were.
C2_TransformRejects ==
    [][ (call'.op \in {"transform", "inverseTransform"}) =>
          LET data == asMatrix(call'.arg) IN
          /\ Unfitted =>
                /\ ~call'.res.ok
                /\ call'.res.error = NotFitted
          /\ (~Unfitted /\ Len(data) > 0 /\ Len(data[1]) # Len(Val(min))) =>
                /\ ~call'.res.ok
                /\ call'.res.error = FeatureMismatch
          /\ ~call'.res.ok =>
                /\ call'.res.value = <<>>
                /\ UNCHANGED <<min, max, range>> ]_vars

C2_Witness ==
    /\ call.op = "inverseTransform"
    /\ ~Unfitted
    /\ Len(asMatrix(call.arg)) > 0
    /\ Len(asMatrix(call.arg)[1]) # Len(Val(min))
    /\ call.res.error = FeatureMismatch

\* C3 as claimed: inverseTransform(transform(W)) = W for every fitted scaler,
\* every output range and every W with the fit-time feature count.
C3_RoundTripAlways ==
    (call.op = "inverseTransform" /\ origin # Null) =>
        (call.res.ok /\ call.res.value = Val(origin))

\* C3 as amended: with an output range whose bounds differ, the cell (i, j)
\* of inverseTransform(transform(W)) equals W[i][j] in every column j whose
\* fit-time max exceeds its min; in a column with max = min the round trip
\* returns the fit-time constant min[j], so it equals W[i][j] only where W
\* holds that constant.  With min 1, max 5 and range [0, 1], 3 is scaled to
\* 1/2 and 1/2 is scaled back to 3.
C3_RoundTrip ==
    /\ (call.op = "inverseTransform" /\ origin # Null) =>
          LET W == Val(origin)
              out == call.res.value
          IN  /\ call.res.ok
              /\ Len(out) = Len(W)
              /\ \A i \in 1..Len(W) :
                    /\ Len(out[i]) = Len(W[i])
                    /\ \A j \in 1..Len(W[i]) :
                          featureRange[1] # featureRange[2] =>
                             /\ Gt(Val(max)[j], Val(min)[j]) => out[i][j] = W[i][j]
                             /\ Val(max)[j] = Val(min)[j] => out[i][j] = Val(min)[j]
    /\ (/\ ~Unfitted
        /\ Val(min) = <<Num(1)>> /\ Val(max) = <<Num(5)>>
        /\ featureRange = <<Num(0), Num(1)>>) =>
          /\ (call.op = "transform" /\ call.arg = TwoD(<< <<Num(3)>> >>)) =>
                call.res.value = << <<Frac(1, 2)>> >>
          /\ (call.op = "inverseTransform" /\ call.arg = TwoD(<< <<Frac(1, 2)>> >>)) =>
                call.res.value = << <<Num(3)>> >>

C3_Witness ==
    /\ call.op = "inverseTransform"
    /\ origin = Some(<< <<Num(3)>> >>)
    /\ call.arg = TwoD(<< <<Frac(1, 2)>> >>)
    /\ call.res.value = << <<Num(3)>> >>
    /\ Val(min) = <<Num(1)>> /\ Val(max) = <<Num(5)>>

\* C9: in a column whose fit-time max equals its min, transform (and the
\* transform at the end of fitTransform) returns the lower bound of the
\* output range in every row, whatever the input value; it is never NaN or
\* an infinity.
C9_DegenerateColumn ==
    (call.op \in {"transform", "fitTransform"} /\ call.res.ok) =>
        \A j \in 1..Len(Val(min)) :
            Val(max)[j] = Val(min)[j] =>
                \A i \in 1..Len(call.res.value) :
                    /\ call.res.value[i][j] = featureRange[1]
                    /\ IsFinite(call.res.value[i][j])

C9_Witness ==
    /\ call.op = "fitTransform"
    /\ call.arg = TwoD(<< <<Num(3)>>, <<Num(3)>>, <<Num(3)>> >>)
    /\ featureRange = <<Num(0), Num(1)>>
    /\ call.res.value = << <<Num(0)>>, <<Num(0)>>, <<Num(0)>> >>

-----------------------------------------------------------------------------
\* class MachineLearningPredictor and class CryptoPredictionSystem: the
\* lifecycle.  Tables are abstracted to [rows, columns]: whether they hold no
\* row ("empty") or some ("data"), and their column names.  Each
\* call is awaited before the next one is made.

ModelNotTrained == "El modelo no ha sido entrenado"
ScalerNotInitialized == "El escalador no ha sido inicializado"
ColumnMissing == "La columna no esta presente en el DataFrame"
LibraryError == "tfjs error"

PriceCols == {"open", "high", "low", "close", "volume"}
IndicatorCols == {"MA_50", "MA_200", "RSI", "BB_middle", "BB_std", "BB_upper", "BB_lower",
                  "EMA_fast", "EMA_slow", "MACD", "MACD_signal", "MACD_histogram"}
AuxCols == <<"fear_greed_index", "exchange_reserves", "mvrv_z_score", "nupl">>
DefaultFeatureCols == <<"close", "volume", "RSI", "MACD">>
DefaultSequenceLength == 60

SeqRange(q) == {q[i] : i \in 1..Len(q)}

\* ['close','volume','RSI','MACD'] followed by the auxiliary columns that the
\* table has, in the order of AuxCols
availableFeatureCols(columns) ==
    DefaultFeatureCols \o SelectSeq(AuxCols, LAMBDA c : c \in columns)

Predictor == [model |-> model, xScaler |-> xScaler, yScaler |-> yScaler]

\* tensors returned by prepareData, reduced to their shape
Tensors(windows, sequenceLength, featureCols) ==
    [windows |-> windows, sequenceLength |-> sequenceLength, featureCols |-> featureCols]

\* featureCols of trainPredictionModel: the argument, or by default the four
\* standard columns and the auxiliary columns the combined table has
featureColsFor(featureColsArg, df) ==
    IF featureColsArg = Null THEN availableFeatureCols(df.columns) ELSE Val(featureColsArg)

prepareDataShapeScalersFirst(P, df, featureCols, sequenceLength) ==
    LET Q == [P EXCEPT !.xScaler = Some([fitted |-> FALSE, featureCols |-> <<>>]),
                       !.yScaler = Some([fitted |-> FALSE, featureCols |-> <<>>])]
    IN
    IF ~(SeqRange(featureCols) \cup {"close"} \subseteq df.columns)
    THEN [res |-> Throw(ColumnMissing), P |-> Q]
    ELSE IF df.rows = "empty"
    THEN [res |-> Throw(TypeError), P |-> Q]
    ELSE [res |-> Return(Tensors("some", sequenceLength, featureCols)),
          P |-> [P EXCEPT !.xScaler = Some([fitted |-> TRUE, featureCols |-> featureCols]),
                          !.yScaler = Some([fitted |-> TRUE, featureCols |-> <<"close_future">>])]]

\* MachineLearningPredictor.prepareData: the result and the predictor afterwards
prepareDataShape(P, df, featureCols, sequenceLength) ==
    IF ~(SeqRange(featureCols) \cup {"close"} \subseteq df.columns)
    THEN [res |-> Throw(ColumnMissing), P |-> P]
    ELSE IF df.rows = "empty"
    THEN \* fitTransform of no row throws after the two scalers are created
         [res |-> Throw(TypeError),
          P |-> [P EXCEPT !.xScaler = Some([fitted |-> FALSE, featureCols |-> <<>>]),
                          !.yScaler = Some([fitted |-> FALSE, featureCols |-> <<>>])]]
    ELSE [res |-> Return(Tensors("some", sequenceLength, featureCols)),
          P |-> [P EXCEPT !.xScaler = Some([fitted |-> TRUE, featureCols |-> featureCols]),
                          !.yScaler = Some([fitted |-> TRUE, featureCols |-> <<"close_future">>])]]

\* MachineLearningPredictor.trainModel; outcome is what tfjs does:
\* "buildThrows" (buildLstmModel throws), "fitThrows" (model.fit rejects), "ok"
trainModelOutcome(P, XTrain, outcome) ==
    IF outcome = "buildThrows" THEN [res |-> Throw(LibraryError), P |-> P]
    ELSE LET built == [fitted |-> FALSE,
                       inputShape |-> <<XTrain.sequenceLength, XTrain.featureCols>>]
         IN  IF outcome = "fitThrows"
             THEN [res |-> Throw(LibraryError), P |-> [P EXCEPT !.model = Some(built)]]
             ELSE [res |-> Return("history"),
                   P |-> [P EXCEPT !.model = Some([built EXCEPT !.fitted = TRUE])]]

TrainOutcomes(XTrain) ==
    IF XTrain.windows = "none" THEN {"buildThrows", "fitThrows"}
    ELSE {"buildThrows", "fitThrows", "ok"}

evaluateModelSkipsModelCheck(P, XTest, outcome) ==
    IF P.yScaler = Null THEN Throw(ScalerNotInitialized)
    ELSE IF outcome = "throws" THEN Throw(LibraryError)
    ELSE IF ~Val(P.yScaler).fitted THEN Throw(NotFitted)
    ELSE Return("metrics")

\* MachineLearningPredictor.evaluateModel; outcome "throws": predict or the
\* inverse scaling throws
evaluateModelOutcome(P, XTest, outcome) ==
    IF P.model = Null THEN Throw(ModelNotTrained)
    ELSE IF P.yScaler = Null THEN Throw(ScalerNotInitialized)
    ELSE IF outcome = "throws" THEN Throw(LibraryError)
    ELSE IF ~Val(P.yScaler).fitted THEN Throw(NotFitted)
    ELSE Return("metrics")

\* MachineLearningPredictor.predictFuture
predictFutureOutcome(P, lastSequence, outcome) ==
    IF P.model = Null THEN Throw(ModelNotTrained)
    ELSE IF P.yScaler = Null THEN Throw(ScalerNotInitialized)
    ELSE IF outcome = "throws" THEN Throw(LibraryError)
    ELSE IF ~Val(P.yScaler).fitted THEN Throw(NotFitted)
    ELSE Return("predictions")

\* ---- direct calls on the MachineLearningPredictor ----

DataFrames ==
    {[rows |-> "data", columns |-> PriceCols \cup IndicatorCols],
     [rows |-> "empty", columns |-> PriceCols \cup IndicatorCols],
     [rows |-> "data", columns |-> PriceCols]}

FeatureColChoices == {<<"close">>, <<"close", "sopr">>}
\* the featureCols argument of trainPredictionModel: null, or a list
FeatureColArgChoices == {Null} \cup {Some(f) : f \in FeatureColChoices}
SequenceLengths == {DefaultSequenceLength, 30}

TensorChoices ==
    {Tensors(w, DefaultSequenceLength, DefaultFeatureCols) : w \in {"none", "some"}}

PrepareData(df, featureCols, sequenceLength) ==
    LET r == prepareDataShape(Predictor, df, featureCols, sequenceLength) IN
    /\ xScaler' = r.P.xScaler
    /\ yScaler' = r.P.yScaler
    /\ call' = [op |-> "prepareData", arg |-> <<>>, res |-> r.res]
    /\ UNCHANGED <<model, trainModelCalled, trainModelResolved, systemVars, scalerVars, serviceVars>>

BuildLstmModel ==
    /\ call' = [op |-> "buildLstmModel", arg |-> <<>>, res |-> Return("model")]
    /\ UNCHANGED <<predictorVars, systemVars, scalerVars, serviceVars>>

TrainModel(XTrain, outcome) ==
    LET r == trainModelOutcome(Predictor, XTrain, outcome) IN
    /\ model' = r.P.model
    /\ trainModelCalled' = TRUE
    /\ trainModelResolved' = (trainModelResolved \/ r.res.ok)
    /\ call' = [op |-> "trainModel", arg |-> <<>>, res |-> r.res]
    /\ UNCHANGED <<xScaler, yScaler, systemVars, scalerVars, serviceVars>>

EvaluateModel(XTest, outcome) ==
    /\ call' = [op |-> "evaluateModel", arg |-> <<>>,
                res |-> evaluateModelOutcome(Predictor, XTest, outcome)]
    /\ UNCHANGED <<predictorVars, systemVars, scalerVars, serviceVars>>

PredictFuture(outcome) ==
    /\ call' = [op |-> "predictFuture", arg |-> <<>>,
                res |-> predictFutureOutcome(Predictor, <<>>, outcome)]
    /\ UNCHANGED <<predictorVars, systemVars, scalerVars, serviceVars>>

\* ---- CryptoPredictionSystem ----

SetGlassnodeApiKey ==
    /\ glassnode_api_key' = TRUE
    /\ call' = [op |-> "setGlassnodeApiKey", arg |-> <<>>, res |-> Return(TRUE)]
    /\ UNCHANGED <<priceData, fearGreedData, exchangeReservesData, onchainData, combinedData,
                   modelTrained, predictionResults, collects, predictorVars, scalerVars, serviceVars>>

\* what the sources answer: price is "error" (getHistoricalPriceData returns
\* null) or the size of the table; an auxiliary answer is "null", or a table
\* that shares a timestamp with the price table ("match") or none ("nomatch");
\* getExchangeReserves always returns a table, and the two on-chain metrics
\* come from one service; a price table keeps the number of the collectData
\* call that fetched it (collect), and so does the combined table copied
\* from it
PriceAnswers == {"error", "empty", "data"}
AuxAnswers == {"null", "nomatch", "match"}
AuxTable(a) == IF a = "null" THEN Null ELSE Some([matches |-> a = "match"])

collectData(price, fg, er, onchain) ==
    /\ collects' = collects + 1
    /\ IF price = "error"
       THEN /\ priceData' = Null
            /\ call' = [op |-> "collectData", arg |-> <<>>, res |-> Return(FALSE)]
            /\ UNCHANGED <<fearGreedData, exchangeReservesData, onchainData>>
       ELSE /\ priceData' = Some([rows |-> price, columns |-> PriceCols,
                                   collect |-> collects + 1])
            /\ fearGreedData' = AuxTable(fg)
            /\ exchangeReservesData' = AuxTable(er)
            /\ onchainData' = IF glassnode_api_key
                              THEN Some([mvrv_z_score |-> AuxTable(onchain),
                                         nupl |-> AuxTable(onchain)])
                              ELSE onchainData
            /\ call' = [op |-> "collectData", arg |-> <<>>, res |-> Return(TRUE)]
    /\ UNCHANGED <<glassnode_api_key, combinedData, modelTrained, predictionResults,
                   predictorVars, scalerVars>>

DoCollectData(price, fg, er, onchain) ==
    collects < MaxCollects /\ collectData(price, fg, er, onchain)

CollectData(price, fg, er, onchain) == DoCollectData(price, fg, er, onchain) /\ UNCHANGED serviceVars

DoPrepareTechnicalIndicators ==
    /\ IF priceData = Null
       THEN /\ call' = [op |-> "prepareTechnicalIndicators", arg |-> <<>>, res |-> Return(FALSE)]
            /\ UNCHANGED priceData
       ELSE /\ priceData' = Some([Val(priceData) EXCEPT !.columns = @ \cup IndicatorCols])
            /\ call' = [op |-> "prepareTechnicalIndicators", arg |-> <<>>, res |-> Return(TRUE)]
    /\ UNCHANGED <<glassnode_api_key, fearGreedData, exchangeReservesData, onchainData,
                   combinedData, modelTrained, predictionResults, collects,
                   predictorVars, scalerVars>>

PrepareTechnicalIndicators == DoPrepareTechnicalIndicators /\ UNCHANGED serviceVars

\* the merges of combineAllData that find a timestamp of the price table in
\* an auxiliary table
matchedColumns ==
    {c \in SeqRange(AuxCols) :
        \/ c = "fear_greed_index" /\ fearGreedData # Null /\ Val(fearGreedData).matches
        \/ c = "exchange_reserves" /\ exchangeReservesData # Null
               /\ Val(exchangeReservesData).matches
        \/ c \in {"mvrv_z_score", "nupl"} /\ onchainData # Null
               /\ Val(onchainData)[c] # Null /\ Val(Val(onchainData)[c]).matches}

\* combineAllData: combinedData becomes a copy of priceData; a merge that
\* finds a matching timestamp writes element i of a column the copy does not
\* have (this.combinedData[name] is undefined), which throws a TypeError
\* before the fill loops run; an empty price table has no timestamp to match
DoCombineAllData ==
    /\ IF priceData = Null
       THEN /\ call' = [op |-> "combineAllData", arg |-> <<>>, res |-> Return(FALSE)]
            /\ UNCHANGED combinedData
       ELSE /\ combinedData' = priceData
            /\ call' = [op |-> "combineAllData", arg |-> <<>>,
                        res |-> IF Val(priceData).rows = "data"
                                   /\ matchedColumns \ Val(priceData).columns # {}
                                THEN Throw(TypeError) ELSE Return(TRUE)]
    /\ UNCHANGED <<glassnode_api_key, priceData, fearGreedData, exchangeReservesData,
                   onchainData, modelTrained, predictionResults, collects,
                   predictorVars, scalerVars>>

CombineAllData == DoCombineAllData /\ UNCHANGED serviceVars

\* trainPredictionModel(featureCols, sequenceLength): prepareData, trainModel
\* and evaluateModel inside one try block; call.arg keeps the featureCols
\* argument
TrainPredictionModel(featureColsArg, sequenceLength, fitOutcome, evalOutcome) ==
    LET op == "trainPredictionModel" IN
    IF combinedData = Null
    THEN /\ call' = [op |-> op, arg |-> featureColsArg, res |-> Return(FALSE)]
         /\ UNCHANGED <<systemVars, predictorVars, scalerVars, serviceVars>>
    ELSE LET df == Val(combinedData)
             featureCols == featureColsFor(featureColsArg, df)
             prep == prepareDataShape(Predictor, df, featureCols, sequenceLength)
         IN
         IF ~prep.res.ok
         THEN /\ xScaler' = prep.P.xScaler
              /\ yScaler' = prep.P.yScaler
              /\ call' = [op |-> op, arg |-> featureColsArg, res |-> Return(FALSE)]
              /\ UNCHANGED <<model, trainModelCalled, trainModelResolved, systemVars, scalerVars, serviceVars>>
         ELSE LET XTrain == prep.res.value
                  trained == trainModelOutcome(prep.P, XTrain, fitOutcome)
                  eval == evaluateModelOutcome(trained.P, XTrain, evalOutcome)
                  done == trained.res.ok /\ eval.ok
              IN  /\ fitOutcome \in TrainOutcomes(XTrain)
                  /\ xScaler' = trained.P.xScaler
                  /\ yScaler' = trained.P.yScaler
                  /\ model' = trained.P.model
                  /\ trainModelCalled' = TRUE
                  /\ trainModelResolved' = (trainModelResolved \/ trained.res.ok)
                  /\ modelTrained' = (modelTrained \/ done)
                  /\ predictionResults' = IF done THEN Some("results") ELSE predictionResults
                  /\ call' = [op |-> op, arg |-> featureColsArg, res |-> Return(done)]
                  /\ UNCHANGED <<glassnode_api_key, priceData, fearGreedData,
                                 exchangeReservesData, onchainData, combinedData, collects,
                                 scalerVars, serviceVars>>

\* rows of the window that predictFuturePrices takes from the combined table
ForecastWindowRows == 60

\* lastSequenceData of predictFuturePrices: the last 60 rows of the combined
\* table in the four standard columns and the auxiliary columns the table
\* has, each value as the table stores it (scaledBy is the scaler that was
\* applied to the values: none)
lastSequenceData(df) ==
    [rows |-> ForecastWindowRows, featureCols |-> availableFeatureCols(df.columns),
     scaledBy |-> Null]

\* the window that a predictFuturePrices call made now hands to predictFuture,
\* if it gets that far
forecastWindow ==
    IF modelTrained /\ SeqRange(DefaultFeatureCols) \subseteq Val(combinedData).columns
    THEN Some(lastSequenceData(Val(combinedData)))
    ELSE Null

\* call.arg keeps the window handed to predictFuture
PredictFuturePrices(outcome) ==
    /\ call' = [op |-> "predictFuturePrices", arg |-> forecastWindow,
                res |-> IF ~modelTrained THEN Return(Null)
                        ELSE IF ~(SeqRange(DefaultFeatureCols)
                                     \subseteq Val(combinedData).columns)
                        THEN \* this.combinedData[col][i] of a column it lacks
                             Throw(TypeError)
                        ELSE LET r == predictFutureOutcome(Predictor, Val(forecastWindow),
                                                           outcome)
                             IN  IF r.ok THEN Return(Some(r.value)) ELSE r]
    /\ UNCHANGED <<systemVars, predictorVars, scalerVars, serviceVars>>

DoGenerateTradingSignalsUnguarded ==
    /\ call' = [op |-> "generateTradingSignals", arg |-> <<>>,
                res |-> Return(Some("signals"))]
    /\ UNCHANGED <<systemVars, predictorVars, scalerVars>>

DoGenerateTradingSignals ==
    /\ call' = [op |-> "generateTradingSignals", arg |-> <<>>,
                res |-> IF combinedData = Null THEN Return(Null)
                        ELSE Return(Some("signals"))]
    /\ UNCHANGED <<systemVars, predictorVars, scalerVars>>

GenerateTradingSignals == DoGenerateTradingSignals /\ UNCHANGED serviceVars

Init ==
    /\ SystemIdle /\ PredictorIdle /\ ScalerIdle /\ ServiceIdle
    /\ call = NoCall

Next ==
    \/ SetGlassnodeApiKey
    \/ \E price \in PriceAnswers, fg \in {"null", "match"}, er \in {"nomatch", "match"} :
          CollectData(price, fg, er, "nomatch")
    \/ PrepareTechnicalIndicators
    \/ CombineAllData
    \/ \E f \in FeatureColArgChoices, L \in SequenceLengths,
          fo \in {"buildThrows", "fitThrows", "ok"}, eo \in {"ok", "throws"} :
          TrainPredictionModel(f, L, fo, eo)
    \/ \E o \in {"ok", "throws"} : PredictFuturePrices(o)
    \/ GenerateTradingSignals
    \* evaluateModel and predictFuture of the system's predictor called on
    \* their own: they read the predictor and change nothing
    \/ \E X \in TensorChoices, o \in {"ok", "throws"} : EvaluateModel(X, o)
    \/ \E o \in {"ok", "throws"} : PredictFuture(o)

Spec == Init /\ [][Next]_vars

\* a MachineLearningPredictor used on its own
NextPredictor ==
    \/ \E df \in DataFrames, f \in FeatureColChoices \cup {DefaultFeatureCols},
          L \in SequenceLengths : PrepareData(df, f, L)
    \/ BuildLstmModel
    \/ \E X \in TensorChoices, o \in {"buildThrows", "fitThrows", "ok"} :
          o \in TrainOutcomes(X) /\ TrainModel(X, o)
    \/ \E X \in TensorChoices, o \in {"ok", "throws"} : EvaluateModel(X, o)
    \/ \E o \in {"ok", "throws"} : PredictFuture(o)

SpecPredictor == Init /\ [][NextPredictor]_vars

-----------------------------------------------------------------------------
\* C1: as long as trainModel has not been called on a MachineLearningPredictor,
\* evaluateModel and predictFuture throw "El modelo no ha sido entrenado"
\* and return nothing; and predictFuturePrices of the CryptoPredictionSystem
\* returns null (no predictions) while the predictor has had no trainModel
\* call or modelTrained is false.
C1_UntrainedFails ==
    /\ (call.op \in {"evaluateModel", "predictFuture"} /\ ~trainModelCalled)
           => (~call.res.ok /\ call.res.error = ModelNotTrained)
    /\ (call.op = "predictFuturePrices" /\ (~trainModelCalled \/ ~modelTrained))
           => (call.res.ok /\ call.res.value = Null)

\* evaluateModel called on a predictor whose scalers prepareData has fitted
\* but whose trainModel was never called
C1_Witness ==
    /\ call.op = "evaluateModel"
    /\ ~trainModelCalled
    /\ yScaler # Null
    /\ combinedData # Null
    /\ call.res = Throw(ModelNotTrained)

-----------------------------------------------------------------------------
\* the feature columns and the target that a trainPredictionModel call with
\* argument featureColsArg names, and that the combined table lacks
missingTrainingCols(featureColsArg) ==
    (SeqRange(featureColsFor(featureColsArg, Val(combinedData))) \cup {"close"})
        \ Val(combinedData).columns

\* C11: a trainPredictionModel call that names a feature column (or the
\* target) absent from the combined table returns false, and leaves the
\* predictor's scalers and model and the system's modelTrained and
\* predictionResults as they were: prepareData throws before it creates a
\* scaler, and no trainModel call is made.
C11_MissingColumnFails ==
    [][(call'.op = "trainPredictionModel" /\ combinedData # Null
           /\ missingTrainingCols(call'.arg) # {})
       => (/\ call'.res = Return(FALSE)
           /\ UNCHANGED <<xScaler, yScaler, model, trainModelCalled, trainModelResolved,
                          modelTrained, predictionResults, combinedData>>)]_vars

\* trainPredictionModel with the default features on a combined table made
\* before prepareTechnicalIndicators ran (it has no RSI and no MACD)
C11_Witness ==
    /\ call.op = "trainPredictionModel"
    /\ call.arg = Null
    /\ combinedData # Null
    /\ "RSI" \notin Val(combinedData).columns
    /\ call.res = Return(FALSE)
    /\ xScaler = Null /\ yScaler = Null /\ model = Null
    /\ ~modelTrained

-----------------------------------------------------------------------------
\* C18: a MachineLearningPredictor on which no trainModel call has completed
\* successfully is untrained: after construction, prepareData, buildLstmModel
\* or a trainModel whose fit failed, evaluateModel and predictFuture throw
\* "El modelo no ha sido entrenado".
C18_TrainedOnlyAfterFit ==
    (call.op \in {"evaluateModel", "predictFuture"} /\ ~trainModelResolved)
        => call.res = Throw(ModelNotTrained)

-----------------------------------------------------------------------------
\* C19: a stage called before its prerequisite leaves every field of the
\* system and of its predictor as it was and reports failure:
\* prepareTechnicalIndicators and combineAllData return false while priceData
\* is null, trainPredictionModel returns false and generateTradingSignals
\* returns null while combinedData is null, and predictFuturePrices returns
\* null while modelTrained is false.
C19_StagesNeedPrerequisite ==
    [][/\ (call'.op \in {"prepareTechnicalIndicators", "combineAllData"} /\ priceData = Null)
           => (call'.res = Return(FALSE) /\ UNCHANGED <<systemVars, predictorVars>>)
       /\ (call'.op = "trainPredictionModel" /\ combinedData = Null)
           => (call'.res = Return(FALSE) /\ UNCHANGED <<systemVars, predictorVars>>)
       /\ (call'.op = "generateTradingSignals" /\ combinedData = Null)
           => (call'.res = Return(Null) /\ UNCHANGED <<systemVars, predictorVars>>)
       /\ (call'.op = "predictFuturePrices" /\ ~modelTrained)
           => (call'.res = Return(Null) /\ UNCHANGED <<systemVars, predictorVars>>)
      ]_<<systemVars, predictorVars, call.op>>

\* combineAllData called after a collectData that got no price data
C19_Witness ==
    /\ call.op = "combineAllData"
    /\ collects > 0
    /\ priceData = Null
    /\ combinedData = Null
    /\ call.res = Return(FALSE)

-----------------------------------------------------------------------------
\* Moving averages: TechnicalAnalysis.calculateMovingAverage and
\* calculationUtils.calculateSMA.  A series is a sequence of numbers; position
\* i of the code (from 0) is position i + 1 here.

\* let sum = 0; for (j = 0; j < window; j++) sum += series[i - j]
\* (i is the position from 1)
RECURSIVE windowSum(_, _, _, _)
windowSum(series, i, j, window) ==
    IF j >= window THEN Num(0)
    ELSE Add(windowSum(series, i, j + 1, window), series[i - j])

calculateMovingAverageCentred(series, window) ==
    [i \in 1..Len(series) |->
        IF i - 1 < window - 1 THEN NaN
        ELSE IF i + 1 > Len(series) THEN Div(windowSum(series, i, 0, window), Num(window))
        ELSE Div(windowSum(series, i + 1, 0, window), Num(window))]

calculateMovingAverage(series, window) ==
    [i \in 1..Len(series) |->
        IF i - 1 < window - 1 THEN NaN
        ELSE Div(windowSum(series, i, 0, window), Num(window))]

calculateSMA(data, period) ==
    [i \in 1..Len(data) |->
        IF i - 1 < period - 1 THEN NaN
        ELSE Div(windowSum(data, i, 0, period), Num(period))]

SeriesVals == {Num(10), Num(11), Num(12)}
SeriesInputs == UNION {[1..n -> SeriesVals] : n \in 0..MaxLen}
Windows == 1..(MaxLen + 2)

CalculateMovingAverage(series, window) ==
    /\ call' = [op |-> "calculateMovingAverage", arg |-> <<series, window>>,
                res |-> Return(calculateMovingAverage(series, window))]
    /\ UNCHANGED <<systemVars, predictorVars, scalerVars, serviceVars>>

CalculateSMA(data, period) ==
    /\ call' = [op |-> "calculateSMA", arg |-> <<data, period>>,
                res |-> Return(calculateSMA(data, period))]
    /\ UNCHANGED <<systemVars, predictorVars, scalerVars, serviceVars>>

\* the functions keep no state: a behaviour is one call
NextMA ==
    /\ call = NoCall
    /\ \/ \E S \in SeriesInputs, w \in Windows : CalculateMovingAverage(S, w)
       \/ \E S \in SeriesInputs, w \in Windows : CalculateSMA(S, w)

SpecMA == Init /\ [][NextMA]_vars

IsMACall == call.op \in {"calculateMovingAverage", "calculateSMA"}

\* the mean of S[a..b], summed from the left
RECURSIVE SumTo(_, _, _)
SumTo(S, a, b) == IF b < a THEN Num(0) ELSE Add(SumTo(S, a, b - 1), S[b])
MeanOf(S, a, b) == Div(SumTo(S, a, b), Num(b - a + 1))

LeadingNaNs(R) ==
    Cardinality({i \in 1..Len(R) : \A k \in 1..i : isNaN(R[k])})

ApplyMA(op, S, w) ==
    IF op = "calculateSMA" THEN calculateSMA(S, w) ELSE calculateMovingAverage(S, w)

\* C8 as stated: the moving average of a series of length n with window w
\* has length n, exactly w-1 leading NaN entries, and every later entry is the
\* mean of the w values ending at it, computed without reading a later value.
C8_MovingAverageExact ==
    IsMACall =>
        LET S == call.arg[1]
            w == call.arg[2]
            R == call.res.value
        IN  /\ Len(R) = Len(S)
            /\ LeadingNaNs(R) = w - 1
            /\ \A i \in 1..Len(S) : i >= w => R[i] = MeanOf(S, i - w + 1, i)

\* C8 amended: for a series of n finite numbers and a window w >= 1 the
\* result has length n, its first min(w-1, n) entries are NaN and no other
\* entry is, every entry i >= w (counted from 1) is the mean of S[i-w+1..i],
\* and it is the entry the function computes from S[1..i] alone.
C8_MovingAverage ==
    IsMACall =>
        LET S == call.arg[1]
            w == call.arg[2]
            n == Len(S)
            R == call.res.value
        IN  /\ Len(R) = n
            /\ LeadingNaNs(R) = (IF w - 1 < n THEN w - 1 ELSE n)
            /\ \A i \in 1..n :
                  /\ isNaN(R[i]) <=> i < w
                  /\ i >= w => /\ R[i] = MeanOf(S, i - w + 1, i)
                               /\ R[i] = ApplyMA(call.op, SubSeq(S, 1, i), w)[i]

\* closes 10, 11, 12, 11, 10 and window 3: the third output is 11
C8_Witness ==
    /\ call.op = "calculateMovingAverage"
    /\ call.arg = << <<Num(10), Num(11), Num(12), Num(11), Num(10)>>, 3 >>
    /\ call.res.value[1] = NaN /\ call.res.value[2] = NaN
    /\ call.res.value[3] = Num(11)

-----------------------------------------------------------------------------
\* Tables with their rows.  A DataFrame is [index, cols]: index is the sequence
\* of timestamps and cols maps each column name to its sequence of values;
\* df.columns is DOMAIN cols.  Assigning a whole column (df[name] = values)
\* adds the column; reading a column the table does not have gives undefined.

Table(index, cols) == [index |-> index, cols |-> cols]
columnsOf(df) == DOMAIN df.cols
setColumn(df, name, values) ==
    [df EXCEPT !.cols = [c \in DOMAIN @ \cup {name} |-> IF c = name THEN values ELSE @[c]]]

\* index.findIndex(d => d.getTime() === date.getTime()): the first position
\* (from 1) holding the timestamp, 0 for -1
findIndex(index, date) ==
    IF \E k \in 1..Len(index) : index[k] = date
    THEN CHOOSE k \in 1..Len(index) :
             index[k] = date /\ \A m \in 1..(k - 1) : index[m] # date
    ELSE 0

\* one merge loop of combineAllData: for each row whose timestamp the source
\* has, combined[name][i] = source[name][position].  When combined has no
\* column of that name, combined[name] is undefined and the first such write
\* throws a TypeError.
mergeColumn(combined, source, name) ==
    LET hits == {i \in 1..Len(combined.index) : findIndex(source.index, combined.index[i]) # 0}
    IN  IF hits = {} THEN [ok |-> TRUE, df |-> combined]
        ELSE IF name \notin columnsOf(combined) THEN [ok |-> FALSE, df |-> combined]
        ELSE [ok |-> TRUE,
              df |-> [combined EXCEPT !.cols[name] =
                        [i \in 1..Len(@) |->
                            IF i \in hits
                            THEN source.cols[name][findIndex(source.index, combined.index[i])]
                            ELSE @[i]]]]

\* forward fill: lastValidValue after the first i positions
RECURSIVE lastValidBefore(_, _)
lastValidBefore(col, i) ==
    IF i = 0 THEN Null
    ELSE IF ~isNaN(col[i]) THEN Some(col[i])
    ELSE lastValidBefore(col, i - 1)

ffill(col) ==
    [i \in 1..Len(col) |->
        IF ~isNaN(col[i]) THEN col[i]
        ELSE IF lastValidBefore(col, i - 1) # Null THEN Val(lastValidBefore(col, i - 1))
        ELSE col[i]]

\* backward fill: lastValidValue of the loop that runs from the end down to i
RECURSIVE lastValidAfter(_, _)
lastValidAfter(col, i) ==
    IF i > Len(col) THEN Null
    ELSE IF ~isNaN(col[i]) THEN Some(col[i])
    ELSE lastValidAfter(col, i + 1)

bfill(col) ==
    [i \in 1..Len(col) |->
        IF ~isNaN(col[i]) THEN col[i]
        ELSE IF lastValidAfter(col, i + 1) # Null THEN Val(lastValidAfter(col, i + 1))
        ELSE col[i]]

fillColumns(df) == [df EXCEPT !.cols = [c \in DOMAIN @ |-> bfill(ffill(@[c]))]]

\* the merges in the order of the code; sources is a sequence of
\* <<table or null, column name>>
RECURSIVE mergeAll(_, _)
mergeAll(combined, sources) ==
    IF sources = <<>> THEN [ok |-> TRUE, df |-> combined]
    ELSE IF sources[1][1] = Null THEN mergeAll(combined, Tail(sources))
    ELSE LET r == mergeColumn(combined, Val(sources[1][1]), sources[1][2])
         IN  IF r.ok THEN mergeAll(r.df, Tail(sources)) ELSE r

\* combineAllData on tables with rows: the result and this.combinedData
combineAllData(price, fearGreed, exchangeReserves, onchain, combinedBefore) ==
    IF price = Null THEN [res |-> Return(FALSE), combinedData |-> combinedBefore]
    ELSE LET metrics == IF onchain = Null THEN <<>>
                        ELSE << <<Val(onchain).mvrv_z_score, "mvrv_z_score">>,
                                <<Val(onchain).nupl, "nupl">> >>
             merged == mergeAll(Val(price),
                                << <<fearGreed, "fear_greed_index">>,
                                   <<exchangeReserves, "exchange_reserves">> >> \o metrics)
         IN  IF merged.ok
             THEN [res |-> Return(TRUE), combinedData |-> Some(fillColumns(merged.df))]
             ELSE [res |-> Throw(TypeError), combinedData |-> Some(merged.df)]

\* ---- combineAllData on a system whose tables collectData and
\* prepareTechnicalIndicators have set ----

Ramp(n) == [i \in 1..n |-> i]
GapVals == {NaN, Num(1), Num(2)}

\* price tables with timestamps 1..n, a close column and an indicator column
\* that may hold NaN
PriceTables ==
    UNION {{Table(Ramp(n), [c \in {"close", "MA_50"} |->
                              IF c = "close" THEN [i \in 1..n |-> Num(10)] ELSE ma]) :
               ma \in [1..n -> GapVals]} : n \in 0..MaxLen}

\* an auxiliary table of one row at timestamp t
AuxRow(t, name, v) == Table(<<t>>, [c \in {name} |-> <<v>>])

InitCombine ==
    /\ priceData \in {Some(t) : t \in PriceTables}
    /\ fearGreedData \in {Null, Some(AuxRow(2, "fear_greed_index", Num(50))),
                                Some(AuxRow(9, "fear_greed_index", Num(50)))}
    /\ exchangeReservesData \in {Some(AuxRow(1, "exchange_reserves", Num(7))),
                                 Some(AuxRow(8, "exchange_reserves", Num(7)))}
    /\ onchainData \in {Null, Some([mvrv_z_score |-> Null,
                                    nupl |-> Some(AuxRow(9, "nupl", Num(0)))])}
    /\ glassnode_api_key = (onchainData # Null)
    /\ combinedData = Null
    /\ modelTrained = FALSE /\ predictionResults = Null
    /\ collects = 1
    /\ PredictorIdle /\ ScalerIdle /\ ServiceIdle
    /\ call = NoCall

CombineTables ==
    LET r == combineAllData(priceData, fearGreedData, exchangeReservesData, onchainData,
                            combinedData) IN
    /\ combinedData' = r.combinedData
    /\ call' = [op |-> "combineAllData", arg |-> <<>>, res |-> r.res]
    /\ UNCHANGED <<glassnode_api_key, priceData, fearGreedData, exchangeReservesData,
                   onchainData, modelTrained, predictionResults, collects,
                   predictorVars, scalerVars, serviceVars>>

NextCombine == CombineTables

SpecCombine == InitCombine /\ [][NextCombine]_vars

\* C4: after combineAllData, a column of the combined table that had a
\* non-NaN value has no NaN left: a missing value that has a value before it
\* holds the last earlier value, and one with no value before it (a leading
\* gap) holds the first later value.
C4_CombinedFilled ==
    (call.op = "combineAllData" /\ priceData # Null /\ combinedData # Null) =>
        LET before == Val(priceData).cols
            after == Val(combinedData).cols
        IN  \A c \in DOMAIN before \cap DOMAIN after :
                (\E k \in 1..Len(before[c]) : ~isNaN(before[c][k])) =>
                    \A i \in 1..Len(before[c]) :
                        LET earlier == {k \in 1..i : ~isNaN(before[c][k])}
                            later == {k \in i..Len(before[c]) : ~isNaN(before[c][k])}
                            Max(S) == CHOOSE x \in S : \A y \in S : y <= x
                            Min(S) == CHOOSE x \in S : \A y \in S : x <= y
                        IN  /\ ~isNaN(after[c][i])
                            /\ after[c][i] = IF earlier # {} THEN before[c][Max(earlier)]
                                             ELSE before[c][Min(later)]

-----------------------------------------------------------------------------
\* MachineLearningPredictor.prepareData on a table with its rows

\* the shifted target: futureValues[i] = df[targetCol][i + predictionDays],
\* NaN where that reads past the end
futureValues(target, predictionDays) ==
    [i \in 1..Len(target) |->
        IF (i - 1) + predictionDays >= Len(target) THEN NaN
        ELSE target[i + predictionDays]]

dropNaNWhenAllNaN(df) ==
    LET indices == SelectSeq(Ramp(Len(df.index)),
                             LAMBDA i : \E c \in columnsOf(df) : ~isNaN(df.cols[c][i]))
    IN  Table([k \in 1..Len(indices) |-> df.index[indices[k]]],
              [c \in columnsOf(df) |-> [k \in 1..Len(indices) |-> df.cols[c][indices[k]]]])

\* dropNaN: the rows that hold no NaN in any column of the table
dropNaN(df) ==
    LET indices == SelectSeq(Ramp(Len(df.index)),
                             LAMBDA i : \A c \in columnsOf(df) : ~isNaN(df.cols[c][i]))
    IN  Table([k \in 1..Len(indices) |-> df.index[indices[k]]],
              [c \in columnsOf(df) |-> [k \in 1..Len(indices) |-> df.cols[c][indices[k]]]])

\* for (i = 0; i < XScaled.length - sequenceLength; i++)
sequenceCount(n, sequenceLength) ==
    IF n - sequenceLength > 0 THEN n - sequenceLength ELSE 0

\* XSequences.push(XScaled.slice(i, i + sequenceLength))
XSequencesOf(XScaled, sequenceLength) ==
    [i \in 1..sequenceCount(Len(XScaled), sequenceLength) |->
        SubSeq(XScaled, i, i + sequenceLength - 1)]

ySequencesInsideWindow(yScaled, sequenceLength) ==
    [i \in 1..sequenceCount(Len(yScaled), sequenceLength) |-> yScaled[i + sequenceLength - 1]]

\* ySequences.push(yScaled[i + sequenceLength])
ySequencesOf(yScaled, sequenceLength) ==
    [i \in 1..sequenceCount(Len(yScaled), sequenceLength) |-> yScaled[i + sequenceLength]]

splitIdxTestShare(count) == count - ((4 * count) \div 5)

\* Math.floor(0.8 * XSequences.length); the double 0.8 * count is never below
\* 4 * count / 5, and is nearer to it than to any other integer
splitIdx(count) == (4 * count) \div 5

NoLocals == [cleanDf |-> Null, XScaled |-> Null, yScaled |-> Null,
             XSequences |-> Null, ySequences |-> Null]

\* prepareData: the result, the two scalers of the predictor afterwards, and
\* the values its local variables held
prepareData(P, df, targetCol, featureCols, sequenceLength, predictionDays) ==
    IF ~(SeqRange(featureCols) \cup {targetCol} \subseteq columnsOf(df))
    THEN [res |-> Throw(ColumnMissing), xScaler |-> P.xScaler, yScaler |-> P.yScaler,
          locals |-> NoLocals]
    ELSE LET futureCol == "close_future"
             dfCopy == setColumn(df, futureCol, futureValues(df.cols[targetCol], predictionDays))
             cleanDf == dropNaN(dfCopy)
             X == [i \in 1..Len(cleanDf.index) |->
                      [j \in 1..Len(featureCols) |-> cleanDf.cols[featureCols[j]][i]]]
             y == cleanDf.cols[futureCol]
             xs == fitTransform(NewScaler(<<Num(0), Num(1)>>), TwoD(X))
             ys == fitTransform(NewScaler(<<Num(0), Num(1)>>),
                                TwoD([i \in 1..Len(y) |-> <<y[i]>>]))
         IN  IF ~xs.res.ok
             THEN [res |-> xs.res, xScaler |-> Some(xs.scaler),
                   yScaler |-> Some(NewScaler(<<Num(0), Num(1)>>)),
                   locals |-> [NoLocals EXCEPT !.cleanDf = Some(cleanDf)]]
             ELSE IF ~ys.res.ok
             THEN [res |-> ys.res, xScaler |-> Some(xs.scaler), yScaler |-> Some(ys.scaler),
                   locals |-> [NoLocals EXCEPT !.cleanDf = Some(cleanDf),
                                               !.XScaled = Some(xs.res.value)]]
             ELSE LET XScaled == xs.res.value
                      yScaled == ys.res.value
                      XSequences == XSequencesOf(XScaled, sequenceLength)
                      ySequences == ySequencesOf(yScaled, sequenceLength)
                      split == splitIdx(Len(XSequences))
                  IN  [res |-> Return([XTrain |-> SubSeq(XSequences, 1, split),
                                       XTest |-> SubSeq(XSequences, split + 1, Len(XSequences)),
                                       yTrain |-> SubSeq(ySequences, 1, split),
                                       yTest |-> SubSeq(ySequences, split + 1, Len(ySequences))]),
                       xScaler |-> Some(xs.scaler), yScaler |-> Some(ys.scaler),
                       locals |-> [cleanDf |-> Some(cleanDf), XScaled |-> Some(XScaled),
                                   yScaled |-> Some(yScaled),
                                   XSequences |-> Some(XSequences),
                                   ySequences |-> Some(ySequences)]]

\* tables of n rows: close rises by one a row, volume may hold NaN
FeatureTables ==
    UNION {{Table(Ramp(n), [c \in {"close", "volume"} |->
                              IF c = "close" THEN [i \in 1..n |-> Num(10 + i)] ELSE v]) :
               v \in [1..n -> {NaN, Num(1)}]} : n \in 0..MaxLen}

FeatureColArgs == {<<"close">>, <<"close", "volume">>, <<"close", "RSI">>}
SequenceLengthArgs == 1..2
PredictionDaysArgs == 0..3

PrepareDataOnRows(df, featureCols, sequenceLength, predictionDays) ==
    LET r == prepareData(Predictor, df, "close", featureCols, sequenceLength, predictionDays) IN
    /\ xScaler' = r.xScaler
    /\ yScaler' = r.yScaler
    /\ call' = [op |-> "prepareData",
                arg |-> [df |-> df, featureCols |-> featureCols,
                         sequenceLength |-> sequenceLength, predictionDays |-> predictionDays],
                res |-> r.res, locals |-> r.locals]
    /\ UNCHANGED <<model, trainModelCalled, trainModelResolved, systemVars, scalerVars, serviceVars>>

\* one prepareData call on a new predictor
NextPrepare ==
    /\ call = NoCall
    /\ \E df \in FeatureTables, f \in FeatureColArgs, L \in SequenceLengthArgs,
          h \in PredictionDaysArgs : PrepareDataOnRows(df, f, L, h)

SpecPrepare == Init /\ [][NextPrepare]_vars

IsPrepareCall == call.op = "prepareData"
HasRequiredColumns ==
    SeqRange(call.arg.featureCols) \cup {"close"} \subseteq columnsOf(call.arg.df)
NoNaNIn(df) == \A c \in columnsOf(df) : \A i \in 1..Len(df.cols[c]) : ~isNaN(df.cols[c][i])

C6_SplitInOrder ==
    (IsPrepareCall /\ call.res.ok) =>
        LET r == call.res.value
            XS == Val(call.locals.XSequences)
            yS == Val(call.locals.ySequences)
            XScaled == Val(call.locals.XScaled)
            L == call.arg.sequenceLength
            split == Len(r.XTrain)
        IN  /\ 5 * split <= 4 * Len(XS) /\ 4 * Len(XS) < 5 * (split + 1)
            /\ Len(r.yTrain) = split
            /\ r.XTrain \o r.XTest = XS
            /\ r.yTrain \o r.yTest = yS
            /\ \A a \in 1..Len(r.XTrain) : r.XTrain[a] = SubSeq(XScaled, a, a + L - 1)
            /\ \A b \in 1..Len(r.XTest) :
                  r.XTest[b] = SubSeq(XScaled, split + b, split + b + L - 1)

\* four windows: three for training, then one for the test
C6_Witness ==
    /\ IsPrepareCall /\ call.res.ok
    /\ Len(call.res.value.XTrain) = 3
    /\ Len(call.res.value.XTest) = 1
    /\ Len(call.res.value.yTest) = 1

\* C7: prepareData turns the n scaled rows into max(0, n-L) windows with
\* their labels: window i (from 1) is scaled rows i..i+L-1 in order and its
\* label is the scaled target of row i+L, the row after the window.
C7_Windows ==
    (IsPrepareCall /\ call.res.ok) =>
        LET r == call.res.value
            XScaled == Val(call.locals.XScaled)
            yScaled == Val(call.locals.yScaled)
            L == call.arg.sequenceLength
            n == Len(XScaled)
            windows == r.XTrain \o r.XTest
            labels == r.yTrain \o r.yTest
        IN  /\ Len(windows) = (IF n - L > 0 THEN n - L ELSE 0)
            /\ Len(labels) = Len(windows)
            /\ \A i \in 1..Len(windows) :
                  /\ Len(windows[i]) = L
                  /\ \A k \in 1..L : windows[i][k] = XScaled[i + k - 1]
                  /\ labels[i] = yScaled[i + L]

\* five scaled rows and window length 2 give three windows
C7_Witness ==
    /\ IsPrepareCall /\ call.res.ok
    /\ call.arg.sequenceLength = 2
    /\ Len(Val(call.locals.XScaled)) = 5
    /\ Len(call.res.value.XTrain) + Len(call.res.value.XTest) = 3

-----------------------------------------------------------------------------
\* CryptoPredictionSystem.generateTradingSignals on a table with its rows

\* a[i] > b[i] && a[i-1] <= b[i-1] for i >= 1, with false put in front
\* (unshift) "to keep the length"
crossAbove(a, b, n) ==
    [i \in 1..(IF n = 0 THEN 1 ELSE n) |->
        IF i = 1 THEN FALSE ELSE Gt(a[i], b[i]) /\ Le(a[i - 1], b[i - 1])]

\* a[i] < b[i] && a[i-1] >= b[i-1]
crossBelow(a, b, n) ==
    [i \in 1..(IF n = 0 THEN 1 ELSE n) |->
        IF i = 1 THEN FALSE ELSE Lt(a[i], b[i]) /\ Ge(a[i - 1], b[i - 1])]

BuySignalCols == {"golden_cross", "rsi_oversold", "macd_bullish_cross",
                  "price_below_lower_band", "extreme_fear", "mvrv_buy_zone"}
SellSignalCols == {"death_cross", "rsi_overbought", "macd_bearish_cross",
                   "price_above_upper_band", "extreme_greed", "mvrv_sell_zone"}

aggregateStrictMajority(count, total) ==
    count > 0 /\ Gt(Div(Num(count), Num(total)), Frac(1, 2))

\* return buySignalCount > 0 && (buySignalCount / totalSignals) >= 0.5
aggregate(count, total) ==
    count > 0 /\ Ge(Div(Num(count), Num(total)), Frac(1, 2))

\* the individual signal columns, in the order the code adds them
individualSignals(df) ==
    LET n == Len(df.index)
        has(c) == c \in columnsOf(df)
        col(c) == df.cols[c]
        each(c, test(_)) == [i \in 1..Len(col(c)) |-> test(col(c)[i])]
        s0 == setColumn(Table(df.index, [c \in {} |-> <<>>]), "close", col("close"))
        s1 == IF has("MA_50") /\ has("MA_200")
              THEN setColumn(setColumn(s0, "golden_cross", crossAbove(col("MA_50"), col("MA_200"), n)),
                             "death_cross", crossBelow(col("MA_50"), col("MA_200"), n))
              ELSE s0
        s2 == IF has("RSI")
              THEN setColumn(setColumn(s1, "rsi_oversold", each("RSI", LAMBDA v : Lt(v, Num(30)))),
                             "rsi_overbought", each("RSI", LAMBDA v : Gt(v, Num(70))))
              ELSE s1
        s3 == IF has("MACD") /\ has("MACD_signal")
              THEN setColumn(setColumn(s2, "macd_bullish_cross",
                                       crossAbove(col("MACD"), col("MACD_signal"), n)),
                             "macd_bearish_cross", crossBelow(col("MACD"), col("MACD_signal"), n))
              ELSE s2
        s4 == IF has("BB_lower") /\ has("BB_upper")
              THEN setColumn(setColumn(s3, "price_below_lower_band",
                                       [i \in 1..n |-> Lt(col("close")[i], col("BB_lower")[i])]),
                             "price_above_upper_band",
                             [i \in 1..n |-> Gt(col("close")[i], col("BB_upper")[i])])
              ELSE s3
        s5 == IF has("fear_greed_index")
              THEN setColumn(setColumn(s4, "extreme_fear",
                                       each("fear_greed_index", LAMBDA v : Le(v, Num(20)))),
                             "extreme_greed", each("fear_greed_index", LAMBDA v : Ge(v, Num(80))))
              ELSE s4
    IN  IF has("mvrv_z_score")
        THEN setColumn(setColumn(s5, "mvrv_buy_zone", each("mvrv_z_score", LAMBDA v : Lt(v, Num(0)))),
                       "mvrv_sell_zone", each("mvrv_z_score", LAMBDA v : Gt(v, Num(7))))
        ELSE s5

\* signals[name] = signals.index.map(...): the fired and the present signal
\* columns of one side are counted row by row
aggregateColumn(signals, side) ==
    [i \in 1..Len(signals.index) |->
        LET present == side \cap columnsOf(signals)
        IN  aggregate(Cardinality({c \in present : signals.cols[c][i]}), Cardinality(present))]

generateTradingSignals(combined) ==
    IF combined = Null THEN Return(Null)
    ELSE LET signals == individualSignals(Val(combined))
             withBuy == setColumn(signals, "buy_signal", aggregateColumn(signals, BuySignalCols))
         IN  Return(Some(setColumn(withBuy, "sell_signal",
                                   aggregateColumn(withBuy, SellSignalCols))))

\* Tables of two rows: each source of signals is absent, or holds values in
\* the second row that fire its buy signal, its sell signal or neither.
Pair(a, b) == <<Num(a), Num(b)>>
MAChoices == {Null} \cup {Some([MA_50 |-> Pair(2, v), MA_200 |-> Pair(2, 2)]) : v \in 1..3}
RSIChoices == {Null} \cup {Some([RSI |-> Pair(50, v)]) : v \in {20, 50, 80}}
                     \cup {Some([RSI |-> <<Num(50), NaN>>])}
MACDChoices == {Null} \cup {Some([MACD |-> Pair(0, v), MACD_signal |-> Pair(0, 0)]) : v \in -1..1}
BBChoices == {Null} \cup {Some([BB_lower |-> Pair(90, b[1]), BB_upper |-> Pair(110, b[2])]) :
                             b \in {<<90, 110>>, <<101, 120>>, <<80, 99>>}}
FearGreedChoices == {Null} \cup {Some([fear_greed_index |-> Pair(50, v)]) : v \in {20, 50, 80}}
MvrvChoices == {Null} \cup {Some([mvrv_z_score |-> Pair(1, v)]) : v \in {-1, 1, 8}}

\* the columns of the chosen sources, with close
RECURSIVE joinCols(_, _)
joinCols(cols, choices) ==
    IF choices = <<>> THEN cols
    ELSE IF choices[1] = Null THEN joinCols(cols, Tail(choices))
    ELSE LET more == Val(choices[1])
         IN  joinCols([c \in DOMAIN cols \cup DOMAIN more |->
                          IF c \in DOMAIN more THEN more[c] ELSE cols[c]], Tail(choices))

SignalTables ==
    {Table(<<1, 2>>, joinCols([c \in {"close"} |-> Pair(100, 100)], <<ma, rsi, macd, bb, fg, mvrv>>)) :
        ma \in MAChoices, rsi \in RSIChoices, macd \in MACDChoices, bb \in BBChoices,
        fg \in FearGreedChoices, mvrv \in MvrvChoices}

InitSignals ==
    /\ combinedData \in {Null} \cup {Some(t) : t \in SignalTables}
    /\ priceData = combinedData
    /\ fearGreedData = Null /\ exchangeReservesData = Null /\ onchainData = Null
    /\ glassnode_api_key = FALSE
    /\ modelTrained = FALSE /\ predictionResults = Null
    /\ collects = (IF combinedData = Null THEN 0 ELSE 1)
    /\ PredictorIdle /\ ScalerIdle /\ ServiceIdle
    /\ call = NoCall

GenerateSignalsOnRows ==
    /\ call' = [op |-> "generateTradingSignals", arg |-> <<>>,
                res |-> generateTradingSignals(combinedData)]
    /\ UNCHANGED <<systemVars, predictorVars, scalerVars, serviceVars>>

NextSignals == GenerateSignalsOnRows

SpecSignals == InitSignals /\ [][NextSignals]_vars

\* the source columns each signal type is computed from
SourcesOf(signal) ==
    IF signal \in {"golden_cross", "death_cross"} THEN {"MA_50", "MA_200"}
    ELSE IF signal \in {"rsi_oversold", "rsi_overbought"} THEN {"RSI"}
    ELSE IF signal \in {"macd_bullish_cross", "macd_bearish_cross"} THEN {"MACD", "MACD_signal"}
    ELSE IF signal \in {"price_below_lower_band", "price_above_upper_band"}
         THEN {"BB_lower", "BB_upper"}
    ELSE IF signal \in {"extreme_fear", "extreme_greed"} THEN {"fear_greed_index"}
    ELSE {"mvrv_z_score"}

-----------------------------------------------------------------------------
\* Risk arithmetic: RiskManagement.calculateKellyCriterion and
\* calculateRiskRewardRatio, calculationUtils.calculateKellyPercentage, and
\* the risk figures of useRiskAnalysis.calculateRisk

\* Math.abs
mathAbs(x) == IF isNaN(x) THEN NaN ELSE IF Lt(x, Num(0)) THEN Neg(x) ELSE x

\* Math.max(a, b): NaN when either argument is NaN
mathMax(a, b) == IF isNaN(a) \/ isNaN(b) THEN NaN ELSE IF Ge(a, b) THEN a ELSE b

calculateKellyCriterionUnclamped(winRate, riskRewardRatio) ==
    LET q == Sub(Num(1), winRate)
        kelly == Sub(winRate, Div(q, riskRewardRatio))
    IN  kelly

calculateKellyCriterion(winRate, riskRewardRatio) ==
    LET q == Sub(Num(1), winRate)
        kelly == Sub(winRate, Div(q, riskRewardRatio))
    IN  mathMax(Num(0), kelly)

calculateKellyPercentage(winRate, winLossRatio) ==
    mathMax(Num(0), Sub(winRate, Div(Sub(Num(1), winRate), winLossRatio)))

calculateRiskRewardRatioNoZeroCheck(entryPrice, targetPrice, stopLoss) ==
    LET reward == mathAbs(Sub(targetPrice, entryPrice))
        risk == mathAbs(Sub(entryPrice, stopLoss))
    IN  Div(reward, risk)

calculateRiskRewardRatio(entryPrice, targetPrice, stopLoss) ==
    LET reward == mathAbs(Sub(targetPrice, entryPrice))
        risk == mathAbs(Sub(entryPrice, stopLoss))
    IN  IF risk = Num(0) THEN Infinity ELSE Div(reward, risk)

\* takeProfitLevels.reduce((sum, level) => sum + level, 0)
RECURSIVE sumLevels(_, _)
sumLevels(levels, k) == IF k = 0 THEN Num(0) ELSE Add(sumLevels(levels, k - 1), levels[k])

\* calculateRisk: the riskAnalysis it stores.  maxDrawdown, consecutiveLosses
\* and tpProbabilities (logarithms and powers that feed no other field) are
\* left out.
calculateRisk(entryPrice, stopLossPercent, takeProfitLevels, portfolioValue, riskPerTrade, winRate) ==
    LET stopLoss == Mul(entryPrice, Sub(Num(1), stopLossPercent))
        riskPerShare == Sub(entryPrice, stopLoss)
        takeProfits == [k \in 1..Len(takeProfitLevels) |->
                           Add(entryPrice, Mul(riskPerShare, takeProfitLevels[k]))]
        riskAmount == Mul(portfolioValue, riskPerTrade)
        positionSize == Div(riskAmount, riskPerShare)
        avgWin == Div(sumLevels(takeProfitLevels, Len(takeProfitLevels)),
                      Num(Len(takeProfitLevels)))
        kellyNumerator == Sub(Mul(winRate, avgWin), Sub(Num(1), winRate))
        kellyPercentage == Div(kellyNumerator, avgWin)
        riskRewardRatios == [k \in 1..Len(takeProfitLevels) |->
                                Div(Sub(Add(entryPrice, Mul(riskPerShare, takeProfitLevels[k])),
                                        entryPrice), riskPerShare)]
    IN  [entryPrice |-> entryPrice, stopLoss |-> stopLoss, takeProfits |-> takeProfits,
         positionSize |-> positionSize, kellyPercentage |-> mathMax(Num(0), kellyPercentage),
         riskRewardRatios |-> riskRewardRatios, riskPerShare |-> riskPerShare]

\* inputs
MaxLevels == 2
WinRates == {Num(0), Frac(1, 4), Frac(1, 2), Frac(3, 4), Num(1)}
Ratios == {Num(0), Frac(1, 2), Num(1), Num(2), Num(3)}
LevelVals == {Num(1), Num(2), Num(3)}
TakeProfitLevelArgs == UNION {[1..n -> LevelVals] : n \in 0..MaxLevels}
Prices == {Num(50), Num(100), Num(150)}
DefaultStopLossPercent == Frac(1, 20)
DefaultPortfolioValue == Num(10000)
DefaultRiskPerTrade == Frac(1, 50)

CalculateKellyCriterion(winRate, riskRewardRatio) ==
    /\ call' = [op |-> "calculateKellyCriterion",
                arg |-> [winRate |-> winRate, ratio |-> riskRewardRatio],
                res |-> Return(calculateKellyCriterion(winRate, riskRewardRatio))]
    /\ UNCHANGED <<systemVars, predictorVars, scalerVars, serviceVars>>

CalculateKellyPercentage(winRate, winLossRatio) ==
    /\ call' = [op |-> "calculateKellyPercentage",
                arg |-> [winRate |-> winRate, ratio |-> winLossRatio],
                res |-> Return(calculateKellyPercentage(winRate, winLossRatio))]
    /\ UNCHANGED <<systemVars, predictorVars, scalerVars, serviceVars>>

\* the ratio of calculateRisk is the mean of takeProfitLevels
CalculateRisk(entryPrice, takeProfitLevels, winRate) ==
    /\ call' = [op |-> "calculateRisk",
                arg |-> [winRate |-> winRate,
                         ratio |-> Div(sumLevels(takeProfitLevels, Len(takeProfitLevels)),
                                       Num(Len(takeProfitLevels))),
                         entryPrice |-> entryPrice, takeProfitLevels |-> takeProfitLevels],
                res |-> Return(calculateRisk(entryPrice, DefaultStopLossPercent,
                                             takeProfitLevels, DefaultPortfolioValue,
                                             DefaultRiskPerTrade, winRate))]
    /\ UNCHANGED <<systemVars, predictorVars, scalerVars, serviceVars>>

CalculateRiskRewardRatio(entryPrice, targetPrice, stopLoss) ==
    /\ call' = [op |-> "calculateRiskRewardRatio",
                arg |-> [entryPrice |-> entryPrice, targetPrice |-> targetPrice,
                         stopLoss |-> stopLoss],
                res |-> Return(calculateRiskRewardRatio(entryPrice, targetPrice, stopLoss))]
    /\ UNCHANGED <<systemVars, predictorVars, scalerVars, serviceVars>>

\* one call of one of the four functions
NextRisk ==
    /\ call = NoCall
    /\ \/ \E w \in WinRates, r \in Ratios : CalculateKellyCriterion(w, r)
       \/ \E w \in WinRates, r \in Ratios : CalculateKellyPercentage(w, r)
       \/ \E e \in Prices, l \in TakeProfitLevelArgs, w \in WinRates : CalculateRisk(e, l, w)
       \/ \E e \in Prices, t \in Prices, sl \in Prices : CalculateRiskRewardRatio(e, t, sl)

SpecRisk == Init /\ [][NextRisk]_vars

IsKellyCall == call.op \in {"calculateKellyCriterion", "calculateKellyPercentage", "calculateRisk"}

\* the Kelly percentage a call produced: the value returned, or the
\* kellyPercentage of the riskAnalysis that calculateRisk stored
kellyOf(c) == IF c.op = "calculateRisk" THEN c.res.value.kellyPercentage ELSE c.res.value

\* C14: for every winRate in [0,1] and every ratio > 0, the value returned by
\* calculateKellyCriterion and calculateKellyPercentage, and the
\* kellyPercentage that calculateRisk stores (its ratio being the mean of the
\* take-profit levels), is max(0, winRate - (1 - winRate)/ratio), so it is
\* never negative.
C14_KellyNonNegative ==
    (IsKellyCall /\ Gt(call.arg.ratio, Num(0)))
        => LET w == call.arg.winRate
               r == call.arg.ratio
               k == Sub(w, Div(Sub(Num(1), w), r))
           IN  /\ call.res.ok
               /\ Ge(kellyOf(call), Num(0))
               /\ kellyOf(call) = (IF Ge(k, Num(0)) THEN k ELSE Num(0))

\* a losing bet (winRate 1/4 at ratio 1, raw Kelly -1/2) sized by calculateRisk
C14_Witness ==
    /\ call.op = "calculateRisk"
    /\ call.arg.winRate = Frac(1, 4)
    /\ call.arg.ratio = Num(1)
    /\ call.res.value.kellyPercentage = Num(0)

\* C15: calculateRiskRewardRatio(entry, target, stopLoss) returns
\* |target - entry| / |entry - stopLoss|, and returns Infinity (a value, no
\* error) when entry equals stopLoss.
C15_RiskRewardRatio ==
    call.op = "calculateRiskRewardRatio"
        => LET e == call.arg.entryPrice
               t == call.arg.targetPrice
               sl == call.arg.stopLoss
               absDiff(a, b) == IF Ge(a, b) THEN Sub(a, b) ELSE Sub(b, a)
           IN  /\ call.res.ok
               /\ e = sl => call.res.value = Infinity
               /\ e # sl => call.res.value = Div(absDiff(t, e), absDiff(e, sl))

\* entry = stopLoss = 100 with target 150
C15_Witness ==
    /\ call.op = "calculateRiskRewardRatio"
    /\ call.arg = [entryPrice |-> Num(100), targetPrice |-> Num(150), stopLoss |-> Num(100)]
    /\ call.res = Return(Infinity)


-----------------------------------------------------------------------------
\* RSI and EMA: TechnicalAnalysis.addRSI and calculateEMA, and
\* calculationUtils.calculateRSI and calculateEMA.  Position i of the code
\* (from 0) is position i + 1 here.

\* delta of addRSI: 0 at the first position, close[i] - close[i-1] after it
deltaOf(close) ==
    [i \in 1..Len(close) |-> IF i = 1 THEN Num(0) ELSE Sub(close[i], close[i - 1])]

\* d > 0 ? d : 0   and   d < 0 ? -d : 0
gainOf(d) == IF Gt(d, Num(0)) THEN d ELSE Num(0)
lossOf(d) == IF Lt(d, Num(0)) THEN Neg(d) ELSE Num(0)

\* addRSI: the column stored as result['RSI']
addRSI(close, window) ==
    LET delta == deltaOf(close)
        gain == [i \in 1..Len(delta) |-> gainOf(delta[i])]
        loss == [i \in 1..Len(delta) |-> lossOf(delta[i])]
        avgGain == calculateMovingAverage(gain, window)
        avgLoss == calculateMovingAverage(loss, window)
    IN  [i \in 1..Len(avgGain) |->
            IF isNaN(avgGain[i]) \/ isNaN(avgLoss[i]) \/ avgLoss[i] = Num(0) THEN NaN
            ELSE LET rs == Div(avgGain[i], avgLoss[i])
                 IN  Sub(Num(100), Div(Num(100), Add(Num(1), rs)))]

\* xs.slice(a, b).reduce((sum, x) => sum + x, 0), a and b counted from 0
RECURSIVE sliceSum(_, _, _)
sliceSum(xs, a, b) ==
    LET hi == IF b > Len(xs) THEN Len(xs) ELSE b IN
    IF hi <= a THEN Num(0) ELSE Add(sliceSum(xs, a, hi - 1), xs[hi])

\* calculationUtils.calculateRSI
calculateRSI(data, period) ==
    LET changes == [k \in 1..(IF Len(data) = 0 THEN 0 ELSE Len(data) - 1) |->
                       Sub(data[k + 1], data[k])]
        gains == [k \in 1..Len(changes) |-> gainOf(changes[k])]
        losses == [k \in 1..Len(changes) |-> lossOf(changes[k])]
    IN  [i \in 1..Len(data) |->
            IF i - 1 < period THEN NaN
            ELSE LET avgGain == Div(sliceSum(gains, i - 1 - period, i - 1), Num(period))
                     avgLoss == Div(sliceSum(losses, i - 1 - period, i - 1), Num(period))
                 IN  IF avgLoss = Num(0) THEN Num(100)
                     ELSE Sub(Num(100), Div(Num(100), Add(Num(1), Div(avgGain, avgLoss))))]

\* TechnicalAnalysis.calculateEMA(series, span)
RECURSIVE emaAt(_, _, _)
emaAt(series, span, i) ==
    LET alpha == Div(Num(2), Num(span + 1)) IN
    IF i = 1 THEN series[1]
    ELSE LET prev == emaAt(series, span, i - 1)
         IN  IF isNaN(series[i]) \/ isNaN(prev) THEN NaN
             ELSE Add(Mul(alpha, series[i]), Mul(Sub(Num(1), alpha), prev))

TechnicalAnalysis_calculateEMA(series, span) ==
    [i \in 1..Len(series) |-> emaAt(series, span, i)]

\* calculationUtils.calculateEMA(data, period): the running value ema after
\* the loop passed position i
RECURSIVE emaFromSMA(_, _, _)
emaFromSMA(data, period, i) ==
    LET multiplier == Div(Num(2), Num(period + 1)) IN
    IF i <= period THEN Div(sliceSum(data, 0, period), Num(period))
    ELSE LET ema == emaFromSMA(data, period, i - 1)
         IN  Add(Mul(Sub(data[i], ema), multiplier), ema)

calculateEMA(data, period) ==
    [i \in 1..Len(data) |->
        IF i - 1 < period - 1 THEN NaN ELSE emaFromSMA(data, period, i)]

AddRSI(close, window) ==
    /\ call' = [op |-> "addRSI", arg |-> [series |-> close, window |-> window],
                res |-> Return(addRSI(close, window))]
    /\ UNCHANGED <<systemVars, predictorVars, scalerVars, serviceVars>>

CalculateRSI(data, period) ==
    /\ call' = [op |-> "calculateRSI", arg |-> [series |-> data, window |-> period],
                res |-> Return(calculateRSI(data, period))]
    /\ UNCHANGED <<systemVars, predictorVars, scalerVars, serviceVars>>

TechnicalAnalysisCalculateEMA(series, span) ==
    /\ call' = [op |-> "TechnicalAnalysis.calculateEMA",
                arg |-> [series |-> series, window |-> span],
                res |-> Return(TechnicalAnalysis_calculateEMA(series, span))]
    /\ UNCHANGED <<systemVars, predictorVars, scalerVars, serviceVars>>

CalculateEMA(data, period) ==
    /\ call' = [op |-> "calculateEMA", arg |-> [series |-> data, window |-> period],
                res |-> Return(calculateEMA(data, period))]
    /\ UNCHANGED <<systemVars, predictorVars, scalerVars, serviceVars>>

\* one call of one of the four functions on a series of prices
NextIndicators ==
    /\ call = NoCall
    /\ \/ \E S \in SeriesInputs, w \in Windows : AddRSI(S, w)
       \/ \E S \in SeriesInputs, w \in Windows : CalculateRSI(S, w)
       \/ \E S \in SeriesInputs, w \in Windows : TechnicalAnalysisCalculateEMA(S, w)
       \/ \E S \in SeriesInputs, w \in Windows : CalculateEMA(S, w)

SpecIndicators == Init /\ [][NextIndicators]_vars

\* mean gain and mean loss of the w price changes that end at position i
MeanGain(S, i, w) ==
    Div(sliceSum([j \in 1..Len(S) |-> gainOf(deltaOf(S)[j])], i - w, i), Num(w))
MeanLoss(S, i, w) ==
    Div(sliceSum([j \in 1..Len(S) |-> lossOf(deltaOf(S)[j])], i - w, i), Num(w))

\* C16: at every position that has w price changes behind it (position
\* i > w), the RSI that addRSI and calculateRSI give is 100 when the mean loss
\* of those changes is 0, and 100 - 100/(1 + meanGain/meanLoss) otherwise.
C16_RSIDefined ==
    call.op \in {"addRSI", "calculateRSI"}
        => LET S == call.arg.series
               w == call.arg.window
               R == call.res.value
           IN  \A i \in 1..Len(S) :
                   i > w => R[i] = IF MeanLoss(S, i, w) = Num(0) THEN Num(100)
                                   ELSE Sub(Num(100),
                                            Div(Num(100),
                                                Add(Num(1), Div(MeanGain(S, i, w),
                                                                MeanLoss(S, i, w)))))

\* C17: both EMA functions give output[0] = input[0], no NaN entry for a
\* series of numbers, and ema[i] = value[i]*f + ema[i-1]*(1-f) with
\* f = 2/(period+1) at every later position.
C17_EMASeededWithFirst ==
    call.op \in {"TechnicalAnalysis.calculateEMA", "calculateEMA"}
        => LET S == call.arg.series
               f == Div(Num(2), Num(call.arg.window + 1))
               R == call.res.value
           IN  /\ Len(R) = Len(S)
               /\ Len(S) > 0 => R[1] = S[1]
               /\ \A i \in 1..Len(S) : ~isNaN(R[i])
               /\ \A i \in 2..Len(S) :
                      R[i] = Add(Mul(S[i], f), Mul(R[i - 1], Sub(Num(1), f)))



-----------------------------------------------------------------------------
\* MACD: TechnicalAnalysis.addMACD (columns of the returned table) and
\* calculateMACD of calculationUtils.

\* isNaN(a) || isNaN(b) ? NaN : a - b
diffOrNaN(a, b) == IF isNaN(a) \/ isNaN(b) THEN NaN ELSE Sub(a, b)

addMACD(close, fast, slow, signal) ==
    LET EMA_fast == TechnicalAnalysis_calculateEMA(close, fast)
        EMA_slow == TechnicalAnalysis_calculateEMA(close, slow)
        MACD == [i \in 1..Len(close) |-> diffOrNaN(EMA_fast[i], EMA_slow[i])]
        MACD_signal == TechnicalAnalysis_calculateEMA(MACD, signal)
    IN  [macd |-> MACD, signal |-> MACD_signal,
         histogram |-> [i \in 1..Len(close) |-> diffOrNaN(MACD[i], MACD_signal[i])]]

calculateMACD(data, fastPeriod, slowPeriod, signalPeriod) ==
    LET fastEMA == calculateEMA(data, fastPeriod)
        slowEMA == calculateEMA(data, slowPeriod)
        macd == [i \in 1..Len(data) |-> diffOrNaN(fastEMA[i], slowEMA[i])]
        signal == calculateEMA(SelectSeq(macd, LAMBDA v : ~isNaN(v)), signalPeriod)
        \* position i takes the next entry of signal
        takes(i) == ~isNaN(macd[i]) /\ ~(i - 1 < slowPeriod + signalPeriod - 2)
        \* signalIndex when the loop is at position i, counted from 1
        signalIndex(i) == 1 + Cardinality({k \in 1..(i - 1) : takes(k)})
        fullSignal == [i \in 1..Len(data) |-> IF takes(i) THEN signal[signalIndex(i)] ELSE NaN]
    IN  [macd |-> macd, signal |-> fullSignal,
         histogram |-> [i \in 1..Len(data) |-> diffOrNaN(macd[i], fullSignal[i])]]

FastPeriods == 1..2
SlowPeriods == 2..3
SignalPeriods == 1..3

AddMACD(close, fast, slow, signal) ==
    /\ call' = [op |-> "addMACD",
                arg |-> [series |-> close, fast |-> fast, slow |-> slow, signal |-> signal],
                res |-> Return(addMACD(close, fast, slow, signal))]
    /\ UNCHANGED <<systemVars, predictorVars, scalerVars, serviceVars>>

CalculateMACD(data, fastPeriod, slowPeriod, signalPeriod) ==
    /\ call' = [op |-> "calculateMACD",
                arg |-> [series |-> data, fast |-> fastPeriod, slow |-> slowPeriod,
                         signal |-> signalPeriod],
                res |-> Return(calculateMACD(data, fastPeriod, slowPeriod, signalPeriod))]
    /\ UNCHANGED <<systemVars, predictorVars, scalerVars, serviceVars>>

\* one call of one of the two functions on a series of prices
NextMACD ==
    /\ call = NoCall
    /\ \/ \E S \in SeriesInputs, f \in FastPeriods, sl \in SlowPeriods, sg \in SignalPeriods :
             AddMACD(S, f, sl, sg)
       \/ \E S \in SeriesInputs, f \in FastPeriods, sl \in SlowPeriods, sg \in SignalPeriods :
             CalculateMACD(S, f, sl, sg)

SpecMACD == Init /\ [][NextMACD]_vars

\* the EMA function that the called MACD function uses
emaOf(op, S, period) ==
    IF op = "addMACD" THEN TechnicalAnalysis_calculateEMA(S, period)
    ELSE calculateEMA(S, period)

\* the period-p EMA of the MACD series M at the index of each MACD value:
\* the EMA of the values that M has, each placed where its MACD value is
alignedEMA(op, M, p) ==
    LET defined == {i \in 1..Len(M) : ~isNaN(M[i])}
        E == emaOf(op, SelectSeq(M, LAMBDA v : ~isNaN(v)), p)
    IN  [i \in 1..Len(M) |->
            IF i \in defined THEN E[Cardinality({k \in defined : k <= i})] ELSE NaN]

\* C28: for addMACD and calculateMACD the three outputs have the length of
\* the input and, at every index i, MACD[i] = EMA_fast[i] - EMA_slow[i], the
\* signal line is the EMA of period `signal` of the MACD series at that same
\* index i, and histogram[i] = MACD[i] - signalLine[i].
C28_MACDAligned ==
    call.op \in {"addMACD", "calculateMACD"}
        => LET S == call.arg.series
               R == call.res.value
               fastEMA == emaOf(call.op, S, call.arg.fast)
               slowEMA == emaOf(call.op, S, call.arg.slow)
               signalLine == alignedEMA(call.op, R.macd, call.arg.signal)
           IN  /\ Len(R.macd) = Len(S) /\ Len(R.signal) = Len(S) /\ Len(R.histogram) = Len(S)
               /\ \A i \in 1..Len(S) :
                     /\ R.macd[i] = diffOrNaN(fastEMA[i], slowEMA[i])
                     /\ R.signal[i] = signalLine[i]
                     /\ R.histogram[i] = diffOrNaN(R.macd[i], R.signal[i])


-----------------------------------------------------------------------------
\* The metrics of MachineLearningPredictor.evaluateModel: the part of the
\* method after model.predict, on the test targets and the predictions of
\* the model (both scaled) and the fitted yScaler.

MaxTest == 3         \* rows of the test set

\* Math.sqrt(x) for x >= 0 or NaN, kept exact: the non-negative number whose
\* square is x
MathSqrt(x) == [rootOf |-> x]

\* sum of f(i) for i in 1..k, starting from 0
RECURSIVE sumOver(_, _)
sumOver(f, k) == IF k = 0 THEN Num(0) ELSE Add(sumOver(f, k - 1), f[k])

calculateMSE(yTrue, yPred) ==
    LET sq == [i \in 1..Len(yTrue) |->
                 LET e == Sub(yTrue[i][1], yPred[i][1]) IN Mul(e, e)]
    IN  Div(sumOver(sq, Len(yTrue)), Num(Len(yTrue)))

calculateMAE(yTrue, yPred) ==
    LET ab == [i \in 1..Len(yTrue) |-> mathAbs(Sub(yTrue[i][1], yPred[i][1]))]
    IN  Div(sumOver(ab, Len(yTrue)), Num(Len(yTrue)))

calculateR2(yTrue, yPred) ==
    LET n == Len(yTrue)
        yMean == Div(sumOver([i \in 1..n |-> yTrue[i][1]], n), Num(n))
        ssTotal == sumOver([i \in 1..n |->
                       LET e == Sub(yTrue[i][1], yMean) IN Mul(e, e)], n)
        ssResidual == sumOver([i \in 1..n |->
                          LET e == Sub(yTrue[i][1], yPred[i][1]) IN Mul(e, e)], n)
    IN  Sub(Num(1), Div(ssResidual, ssTotal))

\* evaluateModel from "Invertir la escala" on; s is this.yScaler
evaluateModelMetrics(s, yTestArray, yPredArray) ==
    LET t == inverseTransform(s, TwoD(yTestArray))
        p == inverseTransform(s, TwoD(yPredArray))
    IN  IF ~t.ok THEN t
        ELSE IF ~p.ok THEN p
        ELSE LET yTrue == t.value
                 yPred == p.value
                 mse == calculateMSE(yTrue, yPred)
             IN  Return([metrics |-> [MSE |-> mse,
                                      MAE |-> calculateMAE(yTrue, yPred),
                                      RMSE |-> MathSqrt(mse),
                                      R2 |-> calculateR2(yTrue, yPred)],
                         yTrueFlat |-> [i \in 1..Len(yTrue) |-> yTrue[i][1]],
                         yPredFlat |-> [i \in 1..Len(yPred) |-> yPred[i][1]]])

\* the yScaler as prepareData fits it on a column of targets
TargetColumns == {<<<<Num(100)>>, <<Num(110)>>>>, <<<<Num(5)>>, <<Num(7)>>, <<Num(6)>>>>}
MetricScalers == {fit(NewScaler(<<Num(0), Num(1)>>), y) : y \in TargetColumns}
\* scaled targets and scaled predictions
ScaledTargets == {Num(0), Frac(1, 2), Num(1)}
TestColumns(n) == [1..n -> {<<v>> : v \in ScaledTargets}]

EvaluateModelMetrics(s, yTestArray, yPredArray) ==
    /\ call' = [op |-> "evaluateModel",
                arg |-> [yScaler |-> s, yTest |-> yTestArray, yPred |-> yPredArray],
                res |-> evaluateModelMetrics(s, yTestArray, yPredArray)]
    /\ UNCHANGED <<systemVars, predictorVars, scalerVars, serviceVars>>

NextMetrics ==
    /\ call = NoCall
    /\ \E s \in MetricScalers, n \in 0..MaxTest :
          \E yTestArray \in TestColumns(n), yPredArray \in TestColumns(n) :
             EvaluateModelMetrics(s, yTestArray, yPredArray)

SpecMetrics == Init /\ [][NextMetrics]_vars

\* the de-scaled value of a scaled target under the scaler s
descaled(s, v) == Add(Mul(v, Val(s.range)[1]), Val(s.min)[1])

\* C29: evaluateModel reports RMSE as the square root of MSE and R2 as
\* 1 - SSresidual/SStotal, both sums taken over the de-scaled targets and
\* predictions; when SStotal is 0 (all de-scaled targets equal) R2 is NaN and
\* not the result of a division by zero.
C29_MetricsOnDescaled ==
    (call.op = "evaluateModel" /\ call.res.ok)
        => LET s == call.arg.yScaler
               n == Len(call.arg.yTest)
               yTrue == [i \in 1..n |-> descaled(s, call.arg.yTest[i][1])]
               yPred == [i \in 1..n |-> descaled(s, call.arg.yPred[i][1])]
               mean == Div(sumOver(yTrue, n), Num(n))
               SStotal == sumOver([i \in 1..n |->
                              Mul(Sub(yTrue[i], mean), Sub(yTrue[i], mean))], n)
               SSresidual == sumOver([i \in 1..n |->
                                 Mul(Sub(yTrue[i], yPred[i]), Sub(yTrue[i], yPred[i]))], n)
               metrics == call.res.value.metrics
           IN  /\ metrics.MSE = Div(SSresidual, Num(n))
               /\ metrics.RMSE = MathSqrt(metrics.MSE)
               /\ metrics.R2 = IF SStotal = Num(0) THEN NaN
                               ELSE Sub(Num(1), Div(SSresidual, SStotal))


-----------------------------------------------------------------------------
\* Position sizing: RiskManagement.calculatePositionSize and setStopLoss, and
\* useRiskAnalysis.calculateRisk called with its sizing arguments.

calculatePositionSize(portfolioValue, riskPerTrade, stopLossPercent) ==
    LET riskAmount == Mul(portfolioValue, riskPerTrade)
        positionSize == Div(riskAmount, stopLossPercent)
    IN  positionSize

setStopLoss(entryPrice, stopLossPercent) ==
    LET stopLossLevel == Mul(entryPrice, Sub(Num(1), stopLossPercent))
    IN  stopLossLevel

EntryPrices == Prices \cup {Num(1)}
PortfolioValues == {Num(1000), Num(5000), Num(10000)}
RiskFractions == {Frac(1, 100), Frac(1, 50), Frac(1, 20)}
StopLossPercents == {Num(0), Frac(1, 20), Frac(3, 20)}
DefaultTakeProfitLevels == <<Num(1), Num(2), Num(3)>>
DefaultWinRate == Frac(1, 2)

CalculatePositionSize(portfolioValue, riskPerTrade, stopLossPercent) ==
    /\ call' = [op |-> "calculatePositionSize",
                arg |-> [portfolioValue |-> portfolioValue, riskPerTrade |-> riskPerTrade,
                         stopLossPercent |-> stopLossPercent],
                res |-> Return(calculatePositionSize(portfolioValue, riskPerTrade,
                                                     stopLossPercent))]
    /\ UNCHANGED <<systemVars, predictorVars, scalerVars, serviceVars>>

SetStopLoss(entryPrice, stopLossPercent) ==
    /\ call' = [op |-> "setStopLoss",
                arg |-> [entryPrice |-> entryPrice, stopLossPercent |-> stopLossPercent],
                res |-> Return(setStopLoss(entryPrice, stopLossPercent))]
    /\ UNCHANGED <<systemVars, predictorVars, scalerVars, serviceVars>>

\* calculateRisk(entryPrice, stopLossPercent, [1, 2, 3], portfolioValue, riskPerTrade)
CalculateRiskSized(entryPrice, stopLossPercent, portfolioValue, riskPerTrade) ==
    /\ call' = [op |-> "calculateRisk",
                arg |-> [entryPrice |-> entryPrice, stopLossPercent |-> stopLossPercent,
                         portfolioValue |-> portfolioValue, riskPerTrade |-> riskPerTrade],
                res |-> Return(calculateRisk(entryPrice, stopLossPercent,
                                             DefaultTakeProfitLevels, portfolioValue,
                                             riskPerTrade, DefaultWinRate))]
    /\ UNCHANGED <<systemVars, predictorVars, scalerVars, serviceVars>>

NextPosition ==
    /\ call = NoCall
    /\ \/ \E v \in PortfolioValues, r \in RiskFractions, p \in StopLossPercents :
             CalculatePositionSize(v, r, p)
       \/ \E e \in EntryPrices, p \in StopLossPercents : SetStopLoss(e, p)
       \/ \E e \in EntryPrices, p \in StopLossPercents, v \in PortfolioValues,
             r \in RiskFractions : CalculateRiskSized(e, p, v, r)

SpecPosition == Init /\ [][NextPosition]_vars

\* (portfolioValue * riskPerTrade) / (entry - stopLoss), stopLoss = entry * (1 - pct)
sizeByRisk(portfolioValue, riskPerTrade, entry, pct) ==
    Div(Mul(portfolioValue, riskPerTrade), Sub(entry, Mul(entry, Sub(Num(1), pct))))

\* C30: setStopLoss returns entry * (1 - pct); the position size of
\* calculateRisk equals (portfolioValue * riskPerTrade) / (entry - stopLoss);
\* and RiskManagement.calculatePositionSize returns, for every entry price,
\* that same value, which is also the position size that calculateRisk
\* computes from the same portfolio value, risk fraction and percentage.
C30_PositionSize ==
    /\ call.op = "setStopLoss"
          => call.res.value = Mul(call.arg.entryPrice, Sub(Num(1), call.arg.stopLossPercent))
    /\ call.op = "calculateRisk"
          => call.res.value.positionSize
                = sizeByRisk(call.arg.portfolioValue, call.arg.riskPerTrade,
                             call.arg.entryPrice, call.arg.stopLossPercent)
    /\ call.op = "calculatePositionSize"
          => \A e \in EntryPrices :
                /\ call.res.value
                      = sizeByRisk(call.arg.portfolioValue, call.arg.riskPerTrade,
                                   e, call.arg.stopLossPercent)
                /\ call.res.value
                      = calculateRisk(e, call.arg.stopLossPercent, DefaultTakeProfitLevels,
                                      call.arg.portfolioValue, call.arg.riskPerTrade,
                                      DefaultWinRate).positionSize

-----------------------------------------------------------------------------
\* Calls in progress: CryptoPredictionSystem.runFullSimulation, and the
\* methods of the PredictionService singleton (initialize, trainModel,
\* predictPrices) on the CryptoPredictionSystem it owns.  These methods are
\* asynchronous: a call runs up to an await, other callers run meanwhile, and
\* the call goes on when what it awaits has settled.  tasks[t] is the call of
\* caller t: its method, where it stands (pc), the stages of the system it
\* has called (ran), its result once it is done (res), and whether
\* this.model of the predictor is still the model that its trainModel built
\* (ownsModel).
\* The stages between two awaits run in one piece in the program; here each
\* is a step of its own, which adds no behaviour of the system's fields.

Busy(t) == tasks[t].pc \notin {"idle", "done"}
Began(m) == [IdleTask EXCEPT !.method = m]
Finished(task, r) == [task EXCEPT !.pc = "done", !.res = Some(r)]
Ran(task, stage) == [task EXCEPT !.ran = Append(@, stage)]

\* where a call goes on when the initialization it started or awaited gave v:
\* initialize returns v; trainModel returns false or calls trainPredictionModel
InitValue(task, v) ==
    IF task.method = "initialize" THEN Finished(task, Return(v))
    ELSE IF v THEN [task EXCEPT !.pc = "train"]
    ELSE Finished(task, Return(FALSE))

\* where a call goes on when its trainPredictionModel returned ok:
\* PredictionService.trainModel returns it; runFullSimulation stops on false
TrainReturned(task, ok) ==
    IF task.method = "trainModel" THEN Finished(task, Return(ok))
    ELSE IF ok THEN [task EXCEPT !.pc = "predict"]
    ELSE Finished(task, Return(FALSE))

\* where a call goes on when its predictFuturePrices settled with r:
\* predictPrices turns an error into null; runFullSimulation stops on null
\* and does not catch an error
PredictReturned(task, r) ==
    IF task.method = "predictPrices"
    THEN Finished(task, IF r.ok THEN r ELSE Return(Null))
    ELSE IF ~r.ok THEN Finished(task, r)
    ELSE IF r.value = Null THEN Finished(task, Return(FALSE))
    ELSE [task EXCEPT !.pc = "signals"]

\* ---- runFullSimulation, called by a script that awaits each run ----

\* the call, up to the return of collectData
RunCollect(t, price, fg, er, onchain) ==
    /\ owner \in {"none", "script"}
    /\ \A u \in Callers : ~Busy(u)
    /\ DoCollectData(price, fg, er, onchain)
    /\ owner' = "script"
    /\ tasks' = [tasks EXCEPT ![t] =
                    LET task == Ran(Began("runFullSimulation"), "collectData") IN
                    IF call'.res.value THEN [task EXCEPT !.pc = "indicators"]
                    ELSE Finished(task, Return(FALSE))]
    /\ UNCHANGED <<isInitialized, initializationPromise>>

RunIndicators(t) ==
    /\ tasks[t].method = "runFullSimulation" /\ tasks[t].pc = "indicators"
    /\ DoPrepareTechnicalIndicators
    /\ tasks' = [tasks EXCEPT ![t] =
                    LET task == Ran(tasks[t], "prepareTechnicalIndicators") IN
                    IF call'.res.value THEN [task EXCEPT !.pc = "combine"]
                    ELSE Finished(task, Return(FALSE))]
    /\ UNCHANGED <<owner, isInitialized, initializationPromise>>

\* an error thrown by combineAllData is not caught: the run rejects
RunCombine(t) ==
    /\ tasks[t].method = "runFullSimulation" /\ tasks[t].pc = "combine"
    /\ DoCombineAllData
    /\ tasks' = [tasks EXCEPT ![t] =
                    LET task == Ran(tasks[t], "combineAllData") IN
                    IF ~call'.res.ok THEN Finished(task, call'.res)
                    ELSE IF call'.res.value THEN [task EXCEPT !.pc = "train"]
                    ELSE Finished(task, Return(FALSE))]
    /\ UNCHANGED <<owner, isInitialized, initializationPromise>>

RunSignals(t) ==
    /\ tasks[t].method = "runFullSimulation" /\ tasks[t].pc = "signals"
    /\ DoGenerateTradingSignals
    /\ tasks' = [tasks EXCEPT ![t] =
                    LET task == Ran(tasks[t], "generateTradingSignals") IN
                    Finished(task, Return(call'.res.value # Null))]
    /\ UNCHANGED <<owner, isInitialized, initializationPromise>>

\* ---- PredictionService ----

ServiceCallNoPromiseCheck(t, m) ==
    LET entered == Began(m) IN
    /\ owner \in {"none", "service"}
    /\ ~Busy(t)
    /\ owner' = "service"
    /\ IF m = "predictPrices" \/ isInitialized
       THEN /\ tasks' = [tasks EXCEPT ![t] =
                            IF m = "predictPrices" THEN [entered EXCEPT !.pc = "predict"]
                            ELSE InitValue(entered, TRUE)]
            /\ UNCHANGED initializationPromise
       ELSE /\ initializationPromise' = "pending"
            /\ tasks' = [tasks EXCEPT ![t] = [entered EXCEPT !.pc = "collect"]]
    /\ UNCHANGED <<isInitialized, systemVars, predictorVars, scalerVars, call>>

\* a call of initialize, trainModel or predictPrices, up to its first await
ServiceCall(t, m) ==
    LET entered == Began(m) IN
    /\ owner \in {"none", "service"}
    /\ ~Busy(t)
    /\ owner' = "service"
    /\ IF m = "predictPrices" \/ isInitialized
       THEN /\ tasks' = [tasks EXCEPT ![t] =
                            IF m = "predictPrices" THEN [entered EXCEPT !.pc = "predict"]
                            ELSE InitValue(entered, TRUE)]
            /\ UNCHANGED initializationPromise
       ELSE IF initializationPromise # "null"
       THEN /\ tasks' = [tasks EXCEPT ![t] = [entered EXCEPT !.pc = "awaitInit"]]
            /\ UNCHANGED initializationPromise
       ELSE /\ initializationPromise' = "pending"
            /\ tasks' = [tasks EXCEPT ![t] = [entered EXCEPT !.pc = "collect"]]
    /\ UNCHANGED <<isInitialized, systemVars, predictorVars, scalerVars, call>>

\* initializeAsync: collectData has returned
InitializeCollect(t, price, fg, er, onchain) ==
    /\ tasks[t].pc = "collect"
    /\ DoCollectData(price, fg, er, onchain)
    /\ IF call'.res.value
       THEN /\ tasks' = [tasks EXCEPT ![t] =
                            [Ran(tasks[t], "collectData") EXCEPT !.pc = "indicators"]]
            /\ UNCHANGED initializationPromise
       ELSE /\ tasks' = [tasks EXCEPT ![t] = InitValue(Ran(tasks[t], "collectData"), FALSE)]
            /\ initializationPromise' = "false"
    /\ UNCHANGED <<owner, isInitialized>>

InitializeIndicators(t) ==
    /\ tasks[t].method \in {"initialize", "trainModel"} /\ tasks[t].pc = "indicators"
    /\ DoPrepareTechnicalIndicators
    /\ IF call'.res.value
       THEN /\ tasks' = [tasks EXCEPT ![t] =
                            [Ran(tasks[t], "prepareTechnicalIndicators") EXCEPT !.pc = "combine"]]
            /\ UNCHANGED initializationPromise
       ELSE /\ tasks' = [tasks EXCEPT ![t] =
                            InitValue(Ran(tasks[t], "prepareTechnicalIndicators"), FALSE)]
            /\ initializationPromise' = "false"
    /\ UNCHANGED <<owner, isInitialized>>

\* an error thrown by combineAllData is caught and resolves the promise to false
InitializeCombine(t) ==
    /\ tasks[t].method \in {"initialize", "trainModel"} /\ tasks[t].pc = "combine"
    /\ DoCombineAllData
    /\ LET ok == call'.res.ok /\ call'.res.value IN
       /\ tasks' = [tasks EXCEPT ![t] = InitValue(Ran(tasks[t], "combineAllData"), ok)]
       /\ isInitialized' = ok
       /\ initializationPromise' = IF ok THEN "true" ELSE "false"
    /\ UNCHANGED owner

\* the initialization promise that a call awaits has resolved
AwaitInit(t) ==
    /\ tasks[t].pc = "awaitInit"
    /\ initializationPromise \in {"true", "false"}
    /\ tasks' = [tasks EXCEPT ![t] = InitValue(tasks[t], initializationPromise = "true")]
    /\ UNCHANGED <<owner, isInitialized, initializationPromise, systemVars, predictorVars,
                   scalerVars, call>>

\* ---- trainPredictionModel(null, 60, predictionDays) and predictFuturePrices,
\* ---- a step from await to await ----

\* trainPredictionModel up to the await of model.fit: prepareData replaces
\* the two scalers, trainModel builds a model and stores it in this.model
TrainStart(t, outcome) ==
    LET op == "trainPredictionModel"
        task == Ran(tasks[t], op)
        returned == [op |-> op, arg |-> Null, res |-> Return(FALSE)]
    IN
    /\ tasks[t].pc = "train"
    /\ IF combinedData = Null
       THEN /\ tasks' = [tasks EXCEPT ![t] = TrainReturned(task, FALSE)]
            /\ call' = returned
            /\ UNCHANGED predictorVars
       ELSE LET df == Val(combinedData)
                prep == prepareDataShape(Predictor, df, featureColsFor(Null, df),
                                         DefaultSequenceLength)
            IN  IF ~prep.res.ok \/ outcome = "buildThrows"
                THEN /\ xScaler' = prep.P.xScaler
                     /\ yScaler' = prep.P.yScaler
                     /\ trainModelCalled' = (trainModelCalled \/ prep.res.ok)
                     /\ tasks' = [tasks EXCEPT ![t] = TrainReturned(task, FALSE)]
                     /\ call' = returned
                     /\ UNCHANGED <<model, trainModelResolved>>
                ELSE LET fitting == trainModelOutcome(prep.P, prep.res.value, "fitThrows").P
                     IN  /\ xScaler' = fitting.xScaler
                         /\ yScaler' = fitting.yScaler
                         /\ model' = fitting.model
                         /\ trainModelCalled' = TRUE
                         /\ tasks' = [u \in Callers |->
                                         IF u = t THEN [task EXCEPT !.pc = "fitting",
                                                                    !.ownsModel = TRUE]
                                         ELSE [tasks[u] EXCEPT !.ownsModel = FALSE]]
                         /\ UNCHANGED <<trainModelResolved, call>>
    /\ UNCHANGED <<owner, isInitialized, initializationPromise, systemVars, scalerVars>>

\* model.fit has settled: it fitted the model that this call built, which is
\* this.model only if no other call has replaced it; evaluateModel then runs
\* up to its await
FitSettles(t, outcome) ==
    /\ tasks[t].pc = "fitting"
    /\ IF outcome = "fitThrows"
       THEN /\ tasks' = [tasks EXCEPT ![t] = TrainReturned(tasks[t], FALSE)]
            /\ call' = [op |-> "trainPredictionModel", arg |-> Null, res |-> Return(FALSE)]
            /\ UNCHANGED <<model, trainModelResolved>>
       ELSE /\ model' = IF tasks[t].ownsModel THEN Some([Val(model) EXCEPT !.fitted = TRUE])
                        ELSE model
            /\ trainModelResolved' = TRUE
            /\ tasks' = [tasks EXCEPT ![t].pc = "evaluating"]
            /\ UNCHANGED call
    /\ UNCHANGED <<xScaler, yScaler, trainModelCalled, owner, isInitialized,
                   initializationPromise, systemVars, scalerVars>>

\* evaluateModel has settled, with this.model and this.yScaler as they are
\* now; on success trainPredictionModel stores the results and sets modelTrained
EvaluateSettles(t, outcome) ==
    LET r == evaluateModelOutcome(Predictor, <<>>, outcome) IN
    /\ tasks[t].pc = "evaluating"
    /\ tasks' = [tasks EXCEPT ![t] = TrainReturned(tasks[t], r.ok)]
    /\ modelTrained' = (modelTrained \/ r.ok)
    /\ predictionResults' = IF r.ok THEN Some("results") ELSE predictionResults
    /\ call' = [op |-> "trainPredictionModel", arg |-> Null, res |-> Return(r.ok)]
    /\ UNCHANGED <<glassnode_api_key, priceData, fearGreedData, exchangeReservesData,
                   onchainData, combinedData, collects, predictorVars, scalerVars,
                   owner, isInitialized, initializationPromise>>

\* predictFuturePrices up to the first await of predictFuture
PredictStart(t) ==
    LET r == IF ~modelTrained THEN Return(Null)
             ELSE IF ~(SeqRange(DefaultFeatureCols) \subseteq Val(combinedData).columns)
             THEN Throw(TypeError)
             ELSE predictFutureOutcome(Predictor, <<>>, "ok")
        task == Ran(tasks[t], "predictFuturePrices")
    IN
    /\ tasks[t].pc = "predict"
    /\ IF modelTrained /\ r.ok
       THEN /\ tasks' = [tasks EXCEPT ![t] = [task EXCEPT !.pc = "predicting"]]
            /\ UNCHANGED call
       ELSE /\ tasks' = [tasks EXCEPT ![t] = PredictReturned(task, r)]
            /\ call' = [op |-> "predictFuturePrices", arg |-> forecastWindow, res |-> r]
    /\ UNCHANGED <<owner, isInitialized, initializationPromise, systemVars, predictorVars,
                   scalerVars>>

\* the predictions of predictFuture have settled, made with this.model and
\* this.yScaler as they are now
PredictSettles(t, outcome) ==
    LET p == predictFutureOutcome(Predictor, <<>>, outcome)
        r == IF p.ok THEN Return(Some(p.value)) ELSE p
    IN
    /\ tasks[t].pc = "predicting"
    /\ tasks' = [tasks EXCEPT ![t] = PredictReturned(tasks[t], r)]
    /\ call' = [op |-> "predictFuturePrices", arg |-> forecastWindow, res |-> r]
    /\ UNCHANGED <<owner, isInitialized, initializationPromise, systemVars, predictorVars,
                   scalerVars>>

ServiceMethods == {"initialize", "trainModel", "predictPrices"}

NextService ==
    \/ owner = "none" /\ SetGlassnodeApiKey
    \/ \E t \in Callers, price \in PriceAnswers, fg \in AuxAnswers, er \in {"nomatch", "match"},
          onchain \in {"null", "nomatch"} : RunCollect(t, price, fg, er, onchain)
    \/ \E t \in Callers : RunIndicators(t)
    \/ \E t \in Callers : RunCombine(t)
    \/ \E t \in Callers : RunSignals(t)
    \/ \E t \in Callers, m \in ServiceMethods : ServiceCall(t, m)
    \/ \E t \in Callers, price \in PriceAnswers, fg \in AuxAnswers, er \in {"nomatch", "match"},
          onchain \in {"null", "nomatch"} : InitializeCollect(t, price, fg, er, onchain)
    \/ \E t \in Callers : InitializeIndicators(t)
    \/ \E t \in Callers : InitializeCombine(t)
    \/ \E t \in Callers : AwaitInit(t)
    \/ \E t \in Callers, o \in {"buildThrows", "ok"} : TrainStart(t, o)
    \/ \E t \in Callers, o \in {"fitThrows", "ok"} : FitSettles(t, o)
    \/ \E t \in Callers, o \in {"ok", "throws"} : EvaluateSettles(t, o)
    \/ \E t \in Callers : PredictStart(t)
    \/ \E t \in Callers, o \in {"ok", "throws"} : PredictSettles(t, o)

SpecService == Init /\ [][NextService]_vars


\* the columns that combinedData takes from an auxiliary source that gave
\* collectData no data
unavailableCols ==
    (IF fearGreedData = Null THEN {"fear_greed_index"} ELSE {})
    \cup (IF exchangeReservesData = Null THEN {"exchange_reserves"} ELSE {})
    \cup {c \in {"mvrv_z_score", "nupl"} : onchainData = Null \/ Val(onchainData)[c] = Null}

\* the price source gave no data: the request failed (null) or the table it
\* returned has no rows
NoPriceData == priceData = Null \/ Val(priceData).rows = "empty"

\* the call of caller t has called collectData
Collected(t) == tasks[t].ran # <<>> /\ tasks[t].ran[1] = "collectData"

C13_AuxUnavailableContinues ==
    /\ (call.op = "collectData" /\ priceData # Null /\ unavailableCols # {})
           => call.res = Return(TRUE)
    /\ \A t \in Callers :
           (/\ tasks[t].method \in {"runFullSimulation", "trainModel"}
            /\ Collected(t) /\ tasks[t].pc = "done"
            /\ priceData # Null /\ unavailableCols # {})
               => {"combineAllData", "trainPredictionModel"} \subseteq SeqRange(tasks[t].ran)
    /\ (combinedData # Null /\ unavailableCols # {})
           => SeqRange(featureColsFor(Null, Val(combinedData))) \cap unavailableCols = {}


\* the call of caller t is inside trainPredictionModel or predictFuturePrices,
\* suspended at an await between its accesses to the scalers, the model and
\* the tables of the system
InRun(t) == tasks[t].pc \in {"fitting", "evaluating", "predicting"}

\* C20: whatever way the calls made through the PredictionService singleton
\* interleave, at most one training or forecast run at a time is at work on
\* the scalers, the model and the tables of the shared system.
C20_OneRunAtATime == Cardinality({t \in Callers : InRun(t)}) <= 1



-----------------------------------------------------------------------------
\* C22: the window that predictFuturePrices hands to predictFuture, and so to
\* the model, has been transformed by the feature scaler that the training
\* fitted (this.mlPredictor's xScaler), as the training windows were.
C22_ForecastWindowScaled ==
    (call.op = "predictFuturePrices" /\ call.arg # Null)
        => (xScaler # Null /\ Val(call.arg).scaledBy = xScaler)

\* C23: after a successful trainPredictionModel, the window that
\* predictFuturePrices hands to predictFuture has the sequenceLength rows
\* and the feature columns, in their order, of the model's input.
C23_ForecastWindowShape ==
    (call.op = "predictFuturePrices" /\ call.arg # Null /\ model # Null)
        => <<Val(call.arg).rows, Val(call.arg).featureCols>> = Val(model).inputShape




-----------------------------------------------------------------------------
\* C27: in the table generateTradingSignals returns, buy_signal and
\* sell_signal are never both true at the same timestamp, whatever indicator
\* and auxiliary columns the combined table has.
C27_BuySellExclusive ==
    (call.op = "generateTradingSignals" /\ call.res.value # Null) =>
        LET signals == Val(call.res.value) IN
        \A i \in 1..Len(signals.index) :
            ~(signals.cols["buy_signal"][i] /\ signals.cols["sell_signal"][i])

-----------------------------------------------------------------------------
\* the calls that are running the collect, indicators, combine sequence of
\* PredictionService.initialize
Initializing ==
    {t \in Callers : tasks[t].method \in {"initialize", "trainModel"}
                     /\ tasks[t].pc \in {"collect", "indicators", "combine"}}

\* C25: however PredictionService.initialize calls overlap, at most one call
\* is running the collect, indicators, combine sequence and the service
\* calls collectData at most once; an initialize call that has run no stage
\* itself (it was made while a run was in flight, or after one) returns the
\* result of that one run.
C25_InitializeOnce ==
    /\ Cardinality(Initializing) <= 1
    /\ owner = "service" => collects <= 1
    /\ \A t \in Callers :
          /\ (tasks[t].method = "initialize" /\ tasks[t].pc = "awaitInit")
                => tasks[t].ran = <<>>
          /\ (tasks[t].method = "initialize" /\ tasks[t].pc = "done" /\ tasks[t].ran = <<>>)
                => /\ initializationPromise \in {"true", "false"}
                   /\ tasks[t].res = Some(Return(initializationPromise = "true"))

\* an initialize call is made while another call's initialization is in
\* flight: it has called no stage and awaits that run
C25_Witness ==
    \E t, u \in Callers :
        /\ t # u
        /\ tasks[u].method = "initialize" /\ tasks[u].pc = "combine"
        /\ tasks[u].ran = <<"collectData", "prepareTechnicalIndicators">>
        /\ tasks[t].method = "initialize" /\ tasks[t].pc = "awaitInit"
        /\ tasks[t].ran = <<>>
        /\ collects = 1

\* caller t makes a call of initialize or trainModel in this step
CallsInitialize(t) ==
    /\ ~Busy(t)
    /\ tasks'[t] # tasks[t]
    /\ tasks'[t].method \in {"initialize", "trainModel"}

\* C26: a failed PredictionService.initialize can be retried: an initialize
\* or trainModel call made after the initialization has resolved false
\* starts the data collection again.
C26_FailedInitializeRetried ==
    [][\A t \in Callers :
          (initializationPromise = "false" /\ CallsInitialize(t))
              => tasks'[t].pc = "collect"]_vars

-----------------------------------------------------------------------------
\* A CryptoPredictionSystem whose stages are called again after a first run,
\* with the arguments that runFullSimulation passes and no auxiliary data.

MaxReruns == 2       \* collectData calls in one behaviour of SpecRerun

CollectDataAgain(price) ==
    /\ collects < MaxReruns
    /\ collectData(price, "null", "nomatch", "nomatch")
    /\ UNCHANGED serviceVars

NextRerun ==
    \/ \E price \in PriceAnswers : CollectDataAgain(price)
    \/ PrepareTechnicalIndicators
    \/ CombineAllData
    \/ \E fo \in {"buildThrows", "fitThrows", "ok"}, eo \in {"ok", "throws"} :
          TrainPredictionModel(Null, DefaultSequenceLength, fo, eo)
    \/ \E o \in {"ok", "throws"} : PredictFuturePrices(o)
    \/ GenerateTradingSignals

SpecRerun == Init /\ [][NextRerun]_vars

\* the call just made was a trainPredictionModel, predictFuturePrices or
\* generateTradingSignals that succeeded
StageSucceeded ==
    \/ call.op = "trainPredictionModel" /\ call.res.ok /\ call.res.value = TRUE
    \/ call.op = "predictFuturePrices" /\ call.res.ok /\ call.res.value # Null
    \/ call.op = "generateTradingSignals" /\ call.res.ok /\ call.res.value # Null

\* C24: a trainPredictionModel, predictFuturePrices or generateTradingSignals
\* call succeeds only on a combined table that was built from the price data
\* of the latest collectData call: after a collectData (successful or
\* failed) none of them succeeds until the stages in between have run again.
C24_NoStaleTables ==
    StageSucceeded => (combinedData # Null /\ Val(combinedData).collect = collects)

-----------------------------------------------------------------------------
\* The loop of MachineLearningPredictor.predictFuture on arrays.  A window is
\* an array of rows and a row an array of cells; a cell is a number, or an
\* array of numbers when the code has stored an array where a number belongs.
\* The output of model.predict is not computed here: each iteration takes it
\* from ScaledOutputs, or the tensor construction or the prediction throws.

MaxSeqRows == 2      \* rows of lastSequence
MaxFeatures == 2     \* cells of a row of lastSequence
MaxDays == 3         \* the days argument of predictFuture

NumCell(n) == [nested |-> FALSE, v |-> <<n>>]
ArrayCell(row) == [nested |-> TRUE, v |-> row]

FeatureVals == {0, 1}
ScaledOutputs == {7, 8}

\* yScaler.inverseTransform of one value, for a target scaler fitted on the
\* range [min, min + range] with feature range [0, 1]
ForecastScaler == [min |-> 100, range |-> 10]
descale(p) == p * ForecastScaler.range + ForecastScaler.min

LastSequences ==
    UNION {[1..r -> [1..f -> {NumCell(n) : n \in FeatureVals}]] :
              r \in 1..MaxSeqRows, f \in 1..MaxFeatures}

\* const nextInput = [...currentSequence[0]]; nextInput[0] = scaled prediction
nextInputOf(currentSequence, p) ==
    LET first == currentSequence[1] IN
    [j \in 1..Len(first) |-> IF j = 1 THEN NumCell(p) ELSE first[j]]

\* nextInput as an array of plain numbers: an array stored where a number
\* belongs sits in the first cell of its row, the cell that nextInput[0]
\* overwrites
numbersOf(row) == [j \in 1..Len(row) |-> row[j].v[1]]

\* currentSequence = [...currentSequence.slice(1), [nextInput]]
nextSequenceOf(currentSequence, p) ==
    Append(Tail(currentSequence), <<ArrayCell(numbersOf(nextInputOf(currentSequence, p)))>>)

Pending == [ok |-> FALSE, value |-> <<>>, error |-> "pending"]

TrainedModels == {Some([fitted |-> TRUE, inputShape |-> <<DefaultSequenceLength, <<"close">>>>])}
FittedScalers == {Some([fitted |-> TRUE, featureCols |-> <<"close_future">>])}

\* a MachineLearningPredictor before or after training
InitForecast ==
    /\ SystemIdle /\ ScalerIdle /\ ServiceIdle
    /\ model \in {Null} \cup TrainedModels
    /\ yScaler \in {Null} \cup FittedScalers
    /\ xScaler = Null
    /\ trainModelCalled = (model # Null)
    /\ trainModelResolved = (model # Null)
    /\ call = NoCall

\* predictFuture(lastSequence, days) up to the loop
PredictFutureCall(lastSequence, days) ==
    /\ call = NoCall
    /\ call' = [op |-> "predictFuture",
                arg |-> [lastSequence |-> lastSequence, days |-> days],
                res |-> IF model = Null THEN Throw(ModelNotTrained)
                        ELSE IF yScaler = Null THEN Throw(ScalerNotInitialized)
                        ELSE Pending,
                locals |-> [i |-> 0, currentSequence |-> lastSequence, predictions |-> <<>>,
                            lastSequence |-> lastSequence, inputs |-> <<>>]]
    /\ UNCHANGED <<predictorVars, systemVars, scalerVars, serviceVars>>

\* one iteration of the loop; locals.inputs keeps the windows handed to
\* tf.tensor for the model, locals.lastSequence the caller's array
PredictFutureIteration(outcome, o) ==
    /\ call.op = "predictFuture" /\ call.res = Pending
    /\ call.locals.i < call.arg.days
    /\ LET L == call.locals
           fed == [L EXCEPT !.inputs = Append(@, L.currentSequence)]
       IN  call' = IF outcome = "throws"
                   THEN [call EXCEPT !.res = Throw(LibraryError), !.locals = fed]
                   ELSE [call EXCEPT
                           !.locals = [fed EXCEPT
                               !.i = @ + 1,
                               !.predictions = Append(@, descale(o)),
                               !.currentSequence = nextSequenceOf(L.currentSequence, o)]]
    /\ UNCHANGED <<predictorVars, systemVars, scalerVars, serviceVars>>

\* the loop has ended: return predictions
PredictFutureReturn ==
    /\ call.op = "predictFuture" /\ call.res = Pending
    /\ call.locals.i = call.arg.days
    /\ call' = [call EXCEPT !.res = Return(call.locals.predictions)]
    /\ UNCHANGED <<predictorVars, systemVars, scalerVars, serviceVars>>

NextForecast ==
    \/ \E S \in LastSequences, d \in 1..MaxDays : PredictFutureCall(S, d)
    \/ \E outcome \in {"ok", "throws"}, o \in ScaledOutputs : PredictFutureIteration(outcome, o)
    \/ PredictFutureReturn

SpecForecast == InitForecast /\ [][NextForecast]_vars

\* a row of n plain numbers
PlainRow(row, n) == Len(row) = n /\ \A j \in 1..n : ~row[j].nested

\* C21: at every iteration of predictFuture the window fed to the model has
\* as many rows as lastSequence, each with as many numbers as a row of
\* lastSequence; each window after the first is the one before it without
\* its first row, followed by a row whose first number is the scaled
\* prediction and whose other numbers are those of the last row of the
\* window before; and the caller's lastSequence is as it was passed.
C21_WindowShape ==
    (call.op = "predictFuture" /\ call.res # Throw(ModelNotTrained)
        /\ call.res # Throw(ScalerNotInitialized))
        => LET S == call.arg.lastSequence
               W == call.locals.inputs
               n == Len(S[1])
           IN  /\ call.locals.lastSequence = S
               /\ \A k \in 1..Len(W) :
                     /\ Len(W[k]) = Len(S)
                     /\ \A r \in 1..Len(S) : PlainRow(W[k][r], n)
                     /\ k > 1 =>
                          LET prev == W[k - 1]
                              last == prev[Len(prev)]
                              new == W[k][Len(S)]
                          IN  /\ \A r \in 1..(Len(S) - 1) : W[k][r] = prev[r + 1]
                              /\ \A j \in 2..n : new[j] = last[j]
                              /\ descale(new[1].v[1]) = call.locals.predictions[k - 1]

====
